---- MODULE Spec2Model ----
(***************************************************************************)
(* Subscription Hub: the REST layer (server/routes.ts), the session/auth   *)
(* helpers (server/auth.ts) and the database-backed persistence layer      *)
(* (DatabaseStorage) as one state machine.  One action per HTTP request:   *)
(* session loading, attachUser, requireAuth, the route handler and the     *)
(* end-of-response session commit are one atomic step.                     *)
(*                                                                         *)
(* Time is counted in ticks; a timestamp is a number of ticks.  The        *)
(* database outlives the server, so the tables start with rows in them.    *)
(* The session store is in memory and starts empty; its 24 h time-to-live  *)
(* lies beyond the horizon of the clock.  The session store fails where    *)
(* the code has a branch for its error (login, logout); the database       *)
(* throws where the statement it is given makes it throw.                  *)
(***************************************************************************)
EXTENDS Integers, Sequences, FiniteSets, TLC

\* ------------------------------------------------------------------ bounds
MaxNow == 2         \* the clock runs over 0..MaxNow ticks
TicksPerDay == 2    \* clock resolution: ticks in one calendar day
MaxSid == 2         \* session identifiers ever generated
MaxLaunches == 2    \* rows of service_launches
MaxLaunchesCrud == 1 \* rows of service_launches where the launch log is not the subject
MaxRows == 3        \* rows of subscriptions the dashboard is given

\* ------------------------------------------------------- program constants
DefaultDays == 30   \* routes.ts: parseInt(req.query.days) || 30

\* ------------------------------------------------------------- value sets
Emails == {"a@x.com", "b@x.com"}
Names == {"", "Ann"}
SubIds == {"s1", "s2"}
UnknownId == "s9"

NoDate == -1        \* SQL NULL / undefined in a timestamp position
InvalidDate == -2   \* new Date(s) for a string s that is no date
NoCookie == 0       \* a request that carries no session cookie

NoUser == [id |-> 0, email |-> "", name |-> ""]
NoEmail == "<undefined>"   \* req.body.email of a body that carries no email
EmptySession == [userId |-> 0, isAuthenticated |-> FALSE]

VARIABLES
    users,          \* table users: set of [id, email, name]
    subscriptions,  \* table subscriptions: set of rows, id is the primary key
    launches,       \* table service_launches: sequence of rows (id = position)
    availableServices, \* table available_services: set of rows, id is the primary key
    sessions,       \* the session store: session id -> session record
    nextSid,        \* the next session identifier generateId() hands out
    now,            \* the clock (new Date()), in ticks
    loggedOut,      \* history: session ids destroyed by a successful logout
    resp,           \* the last request served and the response it got
    pending,        \* requests handled one awaited call at a time: slot -> its locals
    client          \* the browser: auth context, query cache, dashboard

vars == <<users, subscriptions, launches, availableServices, sessions, nextSid, now,
          loggedOut, resp, pending, client>>

\* -------------------------------------------------------------- functions
Without(f, k) == [x \in (DOMAIN f) \ {k} |-> f[x]]
With(f, k, v) == [x \in (DOMAIN f) \cup {k} |-> IF x = k THEN v ELSE f[x]]

\* ------------------------------------------------------------- users table
\* DatabaseStorage.getUserByEmail: select ... where email = ?
getUserByEmail(email) ==
    IF \E u \in users : u.email = email
    THEN CHOOSE u \in users : u.email = email
    ELSE NoUser

\* DatabaseStorage.createUser: insert ... returning; id defaults to a fresh uuid
createUser(insertUser) ==
    [id |-> Cardinality(users) + 1, email |-> insertUser.email, name |-> insertUser.name]

\* The storage object handed to attachUser resolves a user id: it returns the
\* row, returns undefined, or rejects.
LookupOutcomes == {"row", "none", "throws"}
getUserById(id, outcome) ==
    IF outcome = "row" /\ \E u \in users : u.id = id
    THEN CHOOSE u \in users : u.id = id
    ELSE NoUser

\* ------------------------------------------------------- session middleware
\* express-session: a cookie whose id is in the store loads that session; any
\* other request gets a new, unsaved session under a fresh id.  Such an id is
\* never stored and never sent: it is drawn from the negative numbers, apart
\* from every id the store may hold.
HasSession(cookie) == cookie \in DOMAIN sessions
ReqSessionID(cookie) == IF HasSession(cookie) THEN cookie ELSE 0 - nextSid
ReqSession(cookie) == IF HasSession(cookie) THEN sessions[cookie] ELSE EmptySession

\* attachUser with the two destroy() calls left out
attachUserKeepsSession(cookie, outcome) ==
    LET s == ReqSession(cookie)
        user == getUserById(s.userId, outcome)
        found == outcome # "throws" /\ user # NoUser
    IN  IF s.userId # 0 /\ s.isAuthenticated /\ found
        THEN [isAuthenticated |-> TRUE, currentUser |-> user, sessionGone |-> FALSE,
              store |-> sessions]
        ELSE [isAuthenticated |-> FALSE, currentUser |-> NoUser, sessionGone |-> FALSE,
              store |-> sessions]

\* auth.ts attachUser: the request context it leaves behind.
\*   sessionGone: req.session.destroy() ran, req.session is now undefined
attachUser(cookie, outcome) ==
    LET s == ReqSession(cookie)
        user == getUserById(s.userId, outcome)
        found == outcome # "throws" /\ user # NoUser
    IN  IF s.userId # 0 /\ s.isAuthenticated
        THEN IF found
             THEN [isAuthenticated |-> TRUE, currentUser |-> user, sessionGone |-> FALSE,
                   store |-> sessions]
             ELSE [isAuthenticated |-> FALSE, currentUser |-> NoUser, sessionGone |-> TRUE,
                   store |-> Without(sessions, cookie)]
        ELSE [isAuthenticated |-> FALSE, currentUser |-> NoUser, sessionGone |-> FALSE,
              store |-> sessions]

\* requireAuth that calls next() whatever the request carries
requireAuthOpen(req) == TRUE

\* auth.ts requireAuth: TRUE when next() is called, FALSE when it answers 401
requireAuth(req) == req.isAuthenticated /\ req.currentUser # NoUser

\* ----------------------------------------------------------------- response
Routes == {"POST /api/auth/login", "POST /api/auth/logout", "GET /api/auth/me",
           "GET /api/subscriptions", "GET /api/subscriptions/expiring",
           "GET /api/subscriptions/:id", "POST /api/subscriptions",
           "PATCH /api/subscriptions/:id", "DELETE /api/subscriptions/:id",
           "POST /api/subscriptions/:id/launch", "GET /api/users/launch-stats",
           "POST /api/subscriptions/subscribe"}

Protected == Routes \ {"POST /api/auth/login", "POST /api/auth/logout", "GET /api/auth/me"}

NoResp ==
    [route |-> "", status |-> 0, cookie |-> NoCookie, sessionID |-> 0,
     isAuthenticated |-> FALSE, currentUser |-> NoUser, sessionGone |-> FALSE,
     lookup |-> "", ran |-> FALSE, email |-> "", user |-> NoUser, newSid |-> 0,
     id |-> "", owned |-> FALSE, days |-> <<>>, daysAhead |-> 0,
     reqBody |-> <<>>, valid |-> TRUE, body |-> {}, data |-> <<>>, stats |-> <<>>,
     failed |-> ""]

\* A request that is handled one awaited call at a time keeps its locals in a
\* slot: the step it is at (pc), what it was sent, what it has read so far and
\* the status it answered.
Slots == {1, 2}
Idle ==
    [pc |-> "idle", route |-> "", cookie |-> NoCookie, currentUser |-> NoUser, id |-> "",
     body |-> <<>>, email |-> "", name |-> "", found |-> NoUser, user |-> NoUser,
     subscription |-> {}, status |-> 0]
NonePending == [slot \in Slots |-> Idle]

\* no browser takes part
NoClient == [open |-> FALSE]

\* What the user lookup of this request did: nothing ("") when the session
\* carries no authenticated user id, else "found", "none" or "throws".
Lookup(cookie, outcome) ==
    LET s == ReqSession(cookie)
    IN  IF ~(s.userId # 0 /\ s.isAuthenticated) THEN ""
        ELSE IF outcome = "throws" THEN "throws"
        ELSE IF outcome = "row" /\ \E u \in users : u.id = s.userId THEN "found"
        ELSE "none"

\* The request as the route sees it, with no answer yet.
Request(route, cookie, outcome, req) ==
    [NoResp EXCEPT !.route = route, !.cookie = cookie, !.sessionID = ReqSessionID(cookie),
                   !.lookup = Lookup(cookie, outcome),
                   !.isAuthenticated = req.isAuthenticated,
                   !.currentUser = req.currentUser, !.sessionGone = req.sessionGone]

\* ---------------------------------------------------------------- loginUser
\* login that keeps the session it arrived with
regenerateSameId(store, sid, ok) ==
    [store |-> store, sid |-> IF sid > 0 THEN sid ELSE nextSid, err |-> ~ok]

\* Session.regenerate: store.destroy(old id), then a new session under a new id.
\* A failing destroy leaves the old record, and the new session is generated anyway.
regenerate(store, sid, ok) ==
    [store |-> IF ok THEN Without(store, sid) ELSE store,
     sid |-> nextSid,
     err |-> ~ok]

\* login that inserts a user without looking the email up first
findOrCreateAlwaysCreates(email, name) ==
    createUser([email |-> email, name |-> IF name = "" THEN "User" ELSE name])

\* auth.ts loginUser, lines 98-104: find or create the user
findOrCreate(email, name) ==
    LET found == getUserByEmail(email)
    IN  IF found # NoUser THEN found
        ELSE createUser([email |-> email, name |-> IF name = "" THEN "User" ELSE name])

\* auth.ts loginUser, lines 106-128, and the commit express-session makes when
\* the response ends (the regenerated session counts as modified).
\* Result: ok (resolved), the store, the session id of the request afterwards.
loginSession(req, sid, user, regenOk, saveOk, endSaveOk) ==
    LET rg == regenerate(req.store, sid, regenOk)
        authed == [userId |-> user.id, isAuthenticated |-> TRUE]
    IN  IF rg.err
        THEN [ok |-> FALSE, sid |-> rg.sid,
              store |-> IF endSaveOk THEN With(rg.store, rg.sid, EmptySession) ELSE rg.store]
        ELSE IF saveOk
        THEN [ok |-> TRUE, sid |-> rg.sid, store |-> With(rg.store, rg.sid, authed)]
        ELSE [ok |-> FALSE, sid |-> rg.sid,
              store |-> IF endSaveOk THEN With(rg.store, rg.sid, authed) ELSE rg.store]

\* a check that only asks whether the body carries an email
emailMissingOnlyUndefined(email) == email = NoEmail

\* routes.ts: !email
emailMissing(email) == email \in {NoEmail, ""}

\* POST /api/auth/login.  failed names the session-store call that failed.
Login(cookie, outcome, email, name, regenOk, saveOk, endSaveOk) ==
    LET req == attachUser(cookie, outcome)
        rq == [Request("POST /api/auth/login", cookie, outcome, req) EXCEPT !.email = email]
    IN  /\ UNCHANGED <<subscriptions, launches, availableServices, now, loggedOut,
                       pending, client>>
        /\ IF emailMissing(email)
           THEN /\ resp' = [rq EXCEPT !.status = 400, !.valid = FALSE]
                /\ sessions' = req.store
                /\ UNCHANGED <<users, nextSid>>
           ELSE LET user == findOrCreate(email, name)
                IN  /\ users' = users \cup {user}
                    /\ IF req.sessionGone
                       THEN \* req.session is undefined: regenerate throws a TypeError
                            /\ resp' = [rq EXCEPT !.status = 500, !.ran = TRUE]
                            /\ sessions' = req.store
                            /\ UNCHANGED nextSid
                       ELSE LET ls == loginSession(req, rq.sessionID, user,
                                                   regenOk, saveOk, endSaveOk)
                            IN  /\ ls.sid <= MaxSid
                                /\ sessions' = ls.store
                                /\ nextSid' = ls.sid + 1
                                /\ resp' = IF ls.ok
                                           THEN [rq EXCEPT !.status = 200, !.ran = TRUE,
                                                           !.user = user, !.newSid = ls.sid]
                                           ELSE [rq EXCEPT !.status = 500, !.ran = TRUE,
                                                           !.newSid = ls.sid,
                                                           !.failed = IF regenOk THEN "save"
                                                                      ELSE "regenerate"]

\* --------------------------------------------------------------- logoutUser
\* logout that resolves without destroying the record
logoutUserKeepsRecord(store, sid, destroyOk) ==
    [ok |-> destroyOk, store |-> store]

\* auth.ts logoutUser: Session.destroy deletes req.session and asks the store
\* to destroy the record.
logoutUser(store, sid, destroyOk) ==
    [ok |-> destroyOk, store |-> IF destroyOk THEN Without(store, sid) ELSE store]

\* POST /api/auth/logout
Logout(cookie, outcome, destroyOk) ==
    LET req == attachUser(cookie, outcome)
        rq == Request("POST /api/auth/logout", cookie, outcome, req)
        lo == logoutUser(req.store, rq.sessionID, destroyOk)
    IN  /\ UNCHANGED <<users, subscriptions, launches, availableServices, nextSid, now,
                       pending, client>>
        /\ IF req.sessionGone
           THEN \* req.session is undefined: destroy throws a TypeError
                /\ resp' = [rq EXCEPT !.status = 500, !.ran = TRUE]
                /\ sessions' = req.store
                /\ UNCHANGED loggedOut
           ELSE /\ sessions' = lo.store
                /\ resp' = [rq EXCEPT !.status = IF lo.ok THEN 200 ELSE 500, !.ran = TRUE,
                                      !.failed = IF lo.ok THEN "" ELSE "destroy"]
                /\ loggedOut' = IF lo.ok /\ HasSession(cookie)
                                THEN loggedOut \cup {cookie} ELSE loggedOut

\* GET /api/auth/me
GetMe(cookie, outcome) ==
    LET req == attachUser(cookie, outcome)
        rq == Request("GET /api/auth/me", cookie, outcome, req)
    IN  /\ UNCHANGED <<users, subscriptions, launches, availableServices, nextSid, now,
                       loggedOut, pending, client>>
        /\ sessions' = req.store
        /\ resp' = IF ~req.isAuthenticated \/ req.currentUser = NoUser
                   THEN [rq EXCEPT !.status = 401]
                   ELSE [rq EXCEPT !.status = 200, !.ran = TRUE, !.user = req.currentUser]

\* ------------------------------------------------------------------ calendar
\* Date: an instant is a number of ticks since 2025-01-01T00:00, the server's
\* time zone being UTC.  Years the calendar covers:
Years == 2025..2029

IsLeap(y) == (y % 4 = 0 /\ y % 100 # 0) \/ y % 400 = 0
DaysInMonth(y, m) ==
    CASE m \in {4, 6, 9, 11} -> 30
      [] m = 2 -> IF IsLeap(y) THEN 29 ELSE 28
      [] OTHER -> 31
DaysInYear(y) == IF IsLeap(y) THEN 366 ELSE 365

RECURSIVE DaysBeforeYear(_)
DaysBeforeYear(y) == IF y <= 2025 THEN 0 ELSE DaysBeforeYear(y - 1) + DaysInYear(y - 1)

RECURSIVE DaysBeforeMonth(_, _)
DaysBeforeMonth(y, m) ==
    IF m <= 1 THEN 0 ELSE DaysBeforeMonth(y, m - 1) + DaysInMonth(y, m - 1)

\* new Date(y, m - 1, d) at tick k of the day: a day past the end of the month
\* runs on into the next month
Instant(y, m, d, k) ==
    (DaysBeforeYear(y) + DaysBeforeMonth(y, m) + d - 1) * TicksPerDay + k

\* the calendar date n days after the first day of month m of year y
RECURSIVE DateFrom(_, _, _)
DateFrom(y, m, n) ==
    IF n < DaysInMonth(y, m) THEN [y |-> y, m |-> m, d |-> n + 1]
    ELSE IF m = 12 THEN DateFrom(y + 1, 1, n - DaysInMonth(y, m))
    ELSE DateFrom(y, m + 1, n - DaysInMonth(y, m))

AtTick(date, k) == [y |-> date.y, m |-> date.m, d |-> date.d, k |-> k]

\* getFullYear, getMonth + 1, getDate and the tick of the day
DateOf(t) == AtTick(DateFrom(2025, 1, t \div TicksPerDay), t % TicksPerDay)

\* d.setMonth(d.getMonth() + 1), for the date c of d
setMonthOf(c) ==
    IF c.m = 12 THEN Instant(c.y + 1, 1, c.d, c.k) ELSE Instant(c.y, c.m + 1, c.d, c.k)
setMonthNext(t) == setMonthOf(DateOf(t))

\* d.setFullYear(d.getFullYear() + 1), for the date c of d
setFullYearOf(c) == Instant(c.y + 1, c.m, c.d, c.k)
setFullYearNext(t) == setFullYearOf(DateOf(t))

Pad2(n) == IF n < 10 THEN "0" \o ToString(n) ELSE ToString(n)

\* the text of a calendar date and tick, in the form toISOString gives
IsoText(y, m, d, k) ==
    ToString(y) \o "-" \o Pad2(m) \o "-" \o Pad2(d)
        \o "T" \o Pad2((24 * k) \div TicksPerDay) \o ":00:00.000Z"

\* Date.prototype.toISOString
IsoTextOf(c) == IsoText(c.y, c.m, c.d, c.k)
toISOString(t) == IsoTextOf(DateOf(t))

\* ------------------------------------------------------ request body values
\* A JSON body is a function from the keys it carries to their values.  Every
\* value is a string; NotAString stands for a JSON number and JsonNull for null.
NotAString == "<number>"
JsonNull == "<null>"

\* the instants of the years the calendar covers, and their ISO texts
Instants == 0..(Instant(2030, 1, 1, 0) - 1)
IsoTable == [t \in Instants |-> toISOString(t)]
IsoTexts == {IsoTable[t] : t \in Instants}

\* the instants of one month, and the ISO texts of each month
MonthInstants(y, m) ==
    Instant(y, m, 1, 0)..(Instant(y, m, 1, 0) + DaysInMonth(y, m) * TicksPerDay - 1)
MonthTexts ==
    {<<ym, {IsoTable[t] : t \in MonthInstants(ym[1], ym[2])}>> : ym \in Years \X (1..12)}

\* Date.parse of an ISO text: the instant whose text it is (found by its month)
ParseIn(s, month) ==
    CHOOSE t \in MonthInstants(month[1][1], month[1][2]) : IsoTable[t] = s
DateParse == [s \in IsoTexts |-> ParseIn(s, CHOOSE p \in MonthTexts : s \in p[2])]

\* new Date(s): the timestamp of a date string (a date alone is midnight of that
\* day; the text toISOString gives is the instant it was made from), or an
\* Invalid Date.
NewDate(s) ==
    CASE s = "2025-01-01" -> 0
      [] s = "2025-01-02" -> TicksPerDay
      [] s = "2025-01-03" -> 2 * TicksPerDay
      [] s = "2025-01-15" -> Instant(2025, 1, 15, 0)
      [] OTHER -> IF s \in IsoTexts
                  THEN DateParse[s]
                  ELSE InvalidDate

\* shared/schema.ts insertSubscriptionSchema: id and userEmail omitted
SchemaFields == {"name", "category", "cost", "billingCycle", "renewalDate",
                 "expirationDate", "status", "logoUrl", "description", "lastUsed"}
RequiredFields == {"name", "category", "cost", "billingCycle", "renewalDate", "status"}

IsString(v) == v # NotAString /\ v # JsonNull

\* a schema whose status is an enumeration
FieldOkStatusEnum(f, v) ==
    CASE f \in {"cost", "renewalDate"} -> IsString(v) /\ v # ""
      [] f \in {"logoUrl", "description"} -> v # NotAString
      [] f = "lastUsed" -> v = JsonNull
      [] f = "status" -> v \in {"active", "inactive", "expiring"}
      [] OTHER -> IsString(v)

\* the zod type of one field
FieldOk(f, v) ==
    CASE f \in {"cost", "renewalDate"} -> IsString(v) /\ v # ""
      [] f \in {"logoUrl", "description"} -> v # NotAString
      [] f = "lastUsed" -> v = JsonNull      \* z.date(): no JSON string is a Date
      [] OTHER -> IsString(v)

\* a parse that asks for the required fields and checks no type
SchemaAcceptsUntyped(body, partial) ==
    partial \/ RequiredFields \subseteq DOMAIN body

\* insertSubscriptionSchema.parse / .partial().parse: does it throw a ZodError?
SchemaAccepts(body, partial) ==
    /\ partial \/ RequiredFields \subseteq DOMAIN body
    /\ \A f \in DOMAIN body \cap SchemaFields : FieldOk(f, body[f])

\* a parse that lets userEmail through
ValidatedWithUserEmail(body) ==
    [f \in DOMAIN body \cap (SchemaFields \cup {"userEmail"}) |-> body[f]]

\* what parse returns: unknown keys are stripped
Validated(body) == [f \in DOMAIN body \cap SchemaFields |-> body[f]]

\* -------------------------------------------------------- subscriptions table
Field(data, f, default) == IF f \in DOMAIN data THEN data[f] ELSE default

\* the row with this id, whoever owns it
getSubscriptionOfAnyone(id, userEmail) ==
    {s \in subscriptions : s.id = id}

\* DatabaseStorage.getSubscription: where id = ? and userEmail = ?
getSubscription(id, userEmail) ==
    {s \in subscriptions : s.id = id /\ s.userEmail = userEmail}

\* the list query without its where clause
getAllSubscriptionsOfEveryone(userEmail) == subscriptions

\* DatabaseStorage.getAllSubscriptions: where userEmail = ?
getAllSubscriptions(userEmail) ==
    {s \in subscriptions : s.userEmail = userEmail}

\* the expiring query without gte(expirationDate, today)
getExpiringSubscriptionsNoFloor(userEmail, daysAhead) ==
    {s \in subscriptions :
        /\ s.userEmail = userEmail
        /\ s.expirationDate # NoDate
        /\ s.expirationDate <= now + daysAhead * TicksPerDay}

\* DatabaseStorage.getExpiringSubscriptions
getExpiringSubscriptions(userEmail, daysAhead) ==
    LET today == now
        cutoffDate == now + daysAhead * TicksPerDay
    IN  {s \in subscriptions :
            /\ s.userEmail = userEmail
            /\ s.expirationDate # NoDate
            /\ s.expirationDate >= today
            /\ s.expirationDate <= cutoffDate}

\* A fresh primary key (gen_random_uuid)
FreshSubId == IF \E i \in SubIds : \A s \in subscriptions : s.id # i
              THEN CHOOSE i \in SubIds : \A s \in subscriptions : s.id # i
              ELSE UnknownId

\* DatabaseStorage.createSubscription(insertSubscription): the one parameter is
\* the row to insert; user_email is taken from it and is NOT NULL.
\* Result: threw (the insert was rejected) and the row inserted.
createSubscription(insertSubscription) ==
    LET exp == Field(insertSubscription, "expirationDate", "")
        row == [id |-> FreshSubId,
                userEmail |-> Field(insertSubscription, "userEmail", JsonNull),
                name |-> insertSubscription["name"],
                category |-> insertSubscription["category"],
                cost |-> insertSubscription["cost"],
                billingCycle |-> insertSubscription["billingCycle"],
                renewalDate |-> NewDate(insertSubscription["renewalDate"]),
                expirationDate |-> IF exp # "" THEN NewDate(exp) ELSE NoDate,
                status |-> insertSubscription["status"],
                logoUrl |-> Field(insertSubscription, "logoUrl", JsonNull),
                description |-> Field(insertSubscription, "description", JsonNull),
                lastUsed |-> now]
    IN  [threw |-> \/ row.userEmail = JsonNull
                   \/ row.renewalDate = InvalidDate
                   \/ row.expirationDate = InvalidDate
                   \/ row.id = UnknownId,
         row |-> row]

\* DatabaseStorage.updateSubscription: the columns .set() receives.  A date key
\* that is absent or empty becomes undefined, and undefined keys are dropped.
SetColumns(updateData) ==
    {f \in DOMAIN updateData :
        f \in {"renewalDate", "expirationDate"} => updateData[f] # ""}

\* an update that stores the record it is given as the whole row: a column the
\* record lacks is emptied
UpdatedReplacing(row, updateData, lastUsed) ==
    [id |-> row.id,
     userEmail |-> row.userEmail,
     name |-> Field(updateData, "name", ""),
     category |-> Field(updateData, "category", ""),
     cost |-> Field(updateData, "cost", ""),
     billingCycle |-> Field(updateData, "billingCycle", ""),
     renewalDate |-> row.renewalDate,
     expirationDate |-> row.expirationDate,
     status |-> Field(updateData, "status", ""),
     logoUrl |-> Field(updateData, "logoUrl", JsonNull),
     description |-> Field(updateData, "description", JsonNull),
     lastUsed |-> IF "lastUsed" \in DOMAIN updateData THEN lastUsed ELSE row.lastUsed]

\* the row after the update: .set() writes the columns the record carries
\* (lastUsed arrives as a timestamp, never as a string)
Updated(row, updateData, lastUsed) ==
    LET rd == Field(updateData, "renewalDate", "")
        ed == Field(updateData, "expirationDate", "")
    IN  [id |-> row.id,
         userEmail |-> Field(updateData, "userEmail", row.userEmail),
         name |-> Field(updateData, "name", row.name),
         category |-> Field(updateData, "category", row.category),
         cost |-> Field(updateData, "cost", row.cost),
         billingCycle |-> Field(updateData, "billingCycle", row.billingCycle),
         renewalDate |-> IF rd # "" THEN NewDate(rd) ELSE row.renewalDate,
         expirationDate |-> IF ed # "" THEN NewDate(ed) ELSE row.expirationDate,
         status |-> Field(updateData, "status", row.status),
         logoUrl |-> Field(updateData, "logoUrl", row.logoUrl),
         description |-> Field(updateData, "description", row.description),
         lastUsed |-> IF "lastUsed" \in DOMAIN updateData THEN lastUsed ELSE row.lastUsed]

\* DatabaseStorage.updateSubscription(id, updateData, userEmail).
\* Result: threw, the table afterwards, the rows returned.
updateSubscription(id, updateData, lastUsed, userEmail) ==
    LET hit == {s \in subscriptions : s.id = id /\ s.userEmail = userEmail}
        new == {Updated(s, updateData, lastUsed) : s \in hit}
        threw == \/ SetColumns(updateData) = {}
                 \/ /\ Field(updateData, "renewalDate", "") # ""
                    /\ NewDate(updateData["renewalDate"]) = InvalidDate
                 \/ /\ Field(updateData, "expirationDate", "") # ""
                    /\ NewDate(updateData["expirationDate"]) = InvalidDate
    IN  [threw |-> threw,
         table |-> IF threw THEN subscriptions ELSE (subscriptions \ hit) \cup new,
         returned |-> IF threw THEN {} ELSE new]

\* delete by id alone, whoever owns the row
deleteSubscriptionOfAnyone(id, userEmail) ==
    LET hit == {s \in subscriptions : s.id = id}
    IN  [table |-> subscriptions \ hit, deleted |-> hit # {}]

\* DatabaseStorage.deleteSubscription(id, userEmail).
\* Result: the table afterwards, and result.length > 0
deleteSubscription(id, userEmail) ==
    LET hit == {s \in subscriptions : s.id = id /\ s.userEmail = userEmail}
    IN  [table |-> subscriptions \ hit, deleted |-> hit # {}]

\* ------------------------------------------------------ service_launches table
\* an insert that overwrites the log
trackServiceLaunchReplacing(insertLaunch) ==
    <<[subscriptionId |-> insertLaunch.subscriptionId,
       userEmail |-> insertLaunch.userEmail,
       serviceName |-> insertLaunch.serviceName,
       launchedAt |-> now]>>

\* DatabaseStorage.trackServiceLaunch: insert; launchedAt defaults to now()
trackServiceLaunch(insertLaunch) ==
    Append(launches, [subscriptionId |-> insertLaunch.subscriptionId,
                      userEmail |-> insertLaunch.userEmail,
                      serviceName |-> insertLaunch.serviceName,
                      launchedAt |-> now])

Max(S) == CHOOSE x \in S : \A y \in S : y <= x

\* select serviceName, count(*), max(launchedAt) where userEmail = ? group by
\* serviceName
launchGroups(userEmail) ==
    LET mine == {i \in 1..Len(launches) : launches[i].userEmail = userEmail}
        names == {launches[i].serviceName : i \in mine}
        group(n) == {i \in mine : launches[i].serviceName = n}
    IN  {[serviceName |-> n,
          launchCount |-> Cardinality(group(n)),
          lastLaunched |-> Max({launches[i].launchedAt : i \in group(n)})] : n \in names}

\* order by max(launchedAt) desc: the arrangements of the groups the database may
\* return (groups launched last at the same instant come in either order)
orderByLastLaunchedDescAnyOrder(groups) ==
    {q \in [1..Cardinality(groups) -> groups] :
        \A i, j \in DOMAIN q : i # j => q[i] # q[j]}

orderByLastLaunchedDesc(groups) ==
    {q \in [1..Cardinality(groups) -> groups] :
        /\ \A i, j \in DOMAIN q : i # j => q[i] # q[j]
        /\ \A i, j \in DOMAIN q : i < j => q[i].lastLaunched >= q[j].lastLaunched}

\* DatabaseStorage.getUserLaunchStats: the result lists the query may give
getUserLaunchStats(userEmail) == orderByLastLaunchedDesc(launchGroups(userEmail))

\* ------------------------------------------------------------------ parseInt
\* A query-string value is a sequence of characters; a parameter that is absent
\* reaches parseInt as undefined, which it reads as the string "undefined".
Undefined == <<"u", "n", "d", "e", "f", "i", "n", "e", "d">>
NaN == [nan |-> TRUE, value |-> 0]

IsDigit(c) == c \in {"0", "1", "2", "3", "4", "5", "6", "7", "8", "9"}
DigitVal(c) ==
    CASE c = "0" -> 0 [] c = "1" -> 1 [] c = "2" -> 2 [] c = "3" -> 3 [] c = "4" -> 4
      [] c = "5" -> 5 [] c = "6" -> 6 [] c = "7" -> 7 [] c = "8" -> 8 [] c = "9" -> 9

RECURSIVE ParseDigits(_, _, _)
ParseDigits(str, i, acc) ==
    IF i > Len(str) \/ ~IsDigit(str[i])
    THEN [value |-> acc, next |-> i]
    ELSE ParseDigits(str, i + 1, acc * 10 + DigitVal(str[i]))

\* parseInt(str): optional sign, then the longest run of decimal digits
parseInt(str) ==
    LET signed == Len(str) > 0 /\ str[1] \in {"-", "+"}
        first == IF signed THEN 2 ELSE 1
        r == ParseDigits(str, first, 0)
    IN  IF r.next = first THEN NaN
        ELSE [nan |-> FALSE,
              value |-> IF signed /\ str[1] = "-" THEN 0 - r.value ELSE r.value]

\* routes.ts line 78: parseInt(req.query.days as string) || 30
daysOrDefault(str) ==
    LET p == parseInt(str)
    IN  IF p.nan \/ p.value = 0 THEN DefaultDays ELSE p.value

\* ------------------------------------------------------------ protected routes
\* the table holds a row with this id whose user_email is this email
Owns(email, id) == \E s \in subscriptions : s.id = id /\ s.userEmail = email

Unauthorized(rq) == [rq EXCEPT !.status = 401]

\* what every request leaves in the session store and the tables it never touches
OnlySessions(req) ==
    /\ sessions' = req.store
    /\ UNCHANGED <<users, availableServices, nextSid, now, loggedOut, pending, client>>

\* GET /api/subscriptions
GetSubscriptions(cookie, outcome) ==
    LET req == attachUser(cookie, outcome)
        rq == Request("GET /api/subscriptions", cookie, outcome, req)
    IN  /\ OnlySessions(req)
        /\ UNCHANGED <<subscriptions, launches>>
        /\ resp' = IF ~requireAuth(req) THEN Unauthorized(rq)
                   ELSE [rq EXCEPT !.status = 200, !.ran = TRUE,
                                   !.body = getAllSubscriptions(req.currentUser.email)]

\* GET /api/subscriptions/expiring?days=N
GetExpiring(cookie, outcome, days) ==
    LET req == attachUser(cookie, outcome)
        rq == [Request("GET /api/subscriptions/expiring", cookie, outcome, req)
                  EXCEPT !.days = days]
        d == daysOrDefault(days)
    IN  /\ OnlySessions(req)
        /\ UNCHANGED <<subscriptions, launches>>
        /\ resp' = IF ~requireAuth(req) THEN Unauthorized(rq)
                   ELSE [rq EXCEPT !.status = 200, !.ran = TRUE, !.daysAhead = d,
                                   !.body = getExpiringSubscriptions(req.currentUser.email, d)]

\* GET /api/subscriptions/:id
GetSubscription(cookie, outcome, id) ==
    LET req == attachUser(cookie, outcome)
        rq == [Request("GET /api/subscriptions/:id", cookie, outcome, req)
                  EXCEPT !.id = id, !.owned = Owns(req.currentUser.email, id)]
        found == getSubscription(id, req.currentUser.email)
    IN  /\ OnlySessions(req)
        /\ UNCHANGED <<subscriptions, launches>>
        /\ resp' = IF ~requireAuth(req) THEN Unauthorized(rq)
                   ELSE IF found = {} THEN [rq EXCEPT !.status = 404, !.ran = TRUE]
                   ELSE [rq EXCEPT !.status = 200, !.ran = TRUE, !.body = found]

\* POST /api/subscriptions.  The route passes the caller's email as a second
\* argument; createSubscription declares one parameter and never sees it.
PostSubscription(cookie, outcome, body) ==
    LET req == attachUser(cookie, outcome)
        rq == [Request("POST /api/subscriptions", cookie, outcome, req)
                  EXCEPT !.reqBody = body]
        cs == createSubscription(Validated(body))
    IN  /\ OnlySessions(req)
        /\ UNCHANGED launches
        /\ IF ~requireAuth(req)
           THEN resp' = Unauthorized(rq) /\ UNCHANGED subscriptions
           ELSE IF ~SchemaAccepts(body, FALSE)
           THEN /\ resp' = [rq EXCEPT !.status = 400, !.ran = TRUE, !.valid = FALSE]
                /\ UNCHANGED subscriptions
           ELSE IF cs.threw
           THEN resp' = [rq EXCEPT !.status = 500, !.ran = TRUE] /\ UNCHANGED subscriptions
           ELSE /\ subscriptions' = subscriptions \cup {cs.row}
                /\ resp' = [rq EXCEPT !.status = 201, !.ran = TRUE, !.id = cs.row.id,
                                      !.body = {cs.row}]

\* PATCH /api/subscriptions/:id
PatchSubscription(cookie, outcome, id, body) ==
    LET req == attachUser(cookie, outcome)
        rq == [Request("PATCH /api/subscriptions/:id", cookie, outcome, req)
                  EXCEPT !.id = id, !.reqBody = body,
                         !.owned = Owns(req.currentUser.email, id)]
        us == updateSubscription(id, Validated(body), NoDate, req.currentUser.email)
    IN  /\ OnlySessions(req)
        /\ UNCHANGED launches
        /\ IF ~requireAuth(req)
           THEN resp' = Unauthorized(rq) /\ UNCHANGED subscriptions
           ELSE IF ~SchemaAccepts(body, TRUE)
           THEN /\ resp' = [rq EXCEPT !.status = 400, !.ran = TRUE, !.valid = FALSE]
                /\ UNCHANGED subscriptions
           ELSE IF us.threw
           THEN resp' = [rq EXCEPT !.status = 500, !.ran = TRUE] /\ UNCHANGED subscriptions
           ELSE /\ subscriptions' = us.table
                /\ resp' = IF us.returned = {}
                           THEN [rq EXCEPT !.status = 404, !.ran = TRUE]
                           ELSE [rq EXCEPT !.status = 200, !.ran = TRUE, !.body = us.returned]

\* DELETE /api/subscriptions/:id
DeleteSubscription(cookie, outcome, id) ==
    LET req == attachUser(cookie, outcome)
        rq == [Request("DELETE /api/subscriptions/:id", cookie, outcome, req)
                  EXCEPT !.id = id, !.owned = Owns(req.currentUser.email, id)]
        ds == deleteSubscription(id, req.currentUser.email)
    IN  /\ OnlySessions(req)
        /\ UNCHANGED launches
        /\ IF ~requireAuth(req)
           THEN resp' = Unauthorized(rq) /\ UNCHANGED subscriptions
           ELSE /\ subscriptions' = ds.table
                /\ resp' = IF ds.deleted THEN [rq EXCEPT !.status = 204, !.ran = TRUE]
                           ELSE [rq EXCEPT !.status = 404, !.ran = TRUE]

\* POST /api/subscriptions/:id/launch
Launch(cookie, outcome, id) ==
    LET req == attachUser(cookie, outcome)
        rq == [Request("POST /api/subscriptions/:id/launch", cookie, outcome, req)
                  EXCEPT !.id = id, !.owned = Owns(req.currentUser.email, id)]
        email == req.currentUser.email
        found == getSubscription(id, email)
        subscription == CHOOSE s \in found : TRUE
        us == updateSubscription(id, [f \in {"lastUsed"} |-> ""], now, email)
    IN  /\ OnlySessions(req)
        /\ IF ~requireAuth(req)
           THEN resp' = Unauthorized(rq) /\ UNCHANGED <<subscriptions, launches>>
           ELSE IF found = {}
           THEN /\ resp' = [rq EXCEPT !.status = 404, !.ran = TRUE]
                /\ UNCHANGED <<subscriptions, launches>>
           ELSE /\ Len(launches) < MaxLaunches
                /\ launches' = trackServiceLaunch([subscriptionId |-> id, userEmail |-> email,
                                                   serviceName |-> subscription.name])
                /\ subscriptions' = us.table
                /\ resp' = [rq EXCEPT !.status = 200, !.ran = TRUE]

\* GET /api/users/launch-stats
GetLaunchStats(cookie, outcome) ==
    LET req == attachUser(cookie, outcome)
        rq == Request("GET /api/users/launch-stats", cookie, outcome, req)
    IN  /\ OnlySessions(req)
        /\ UNCHANGED <<subscriptions, launches>>
        /\ IF ~requireAuth(req)
           THEN resp' = Unauthorized(rq)
           ELSE \E stats \in getUserLaunchStats(req.currentUser.email) :
                    resp' = [rq EXCEPT !.status = 200, !.ran = TRUE, !.stats = stats]

\* ------------------------------------------------------- one-click subscribe
\* DatabaseStorage.getAvailableService: where id = ?
getAvailableService(id) == {s \in availableServices : s.id = id}

\* !v for a value of the JSON body
Falsy(v) == v \in {"", JsonNull}

\* Number.prototype.toString of a price in units and cents
NumberToString(price) ==
    IF price.cents = 0 THEN ToString(price.units)
    ELSE IF price.cents % 10 = 0
    THEN ToString(price.units) \o "." \o ToString(price.cents \div 10)
    ELSE ToString(price.units) \o "." \o Pad2(price.cents)

\* service.plans.find(plan => plan.id === planId): the first match, if any
findPlan(plans, planId) ==
    LET hits == {i \in 1..Len(plans) : plans[i].id = planId}
    IN  IF hits = {} THEN {}
        ELSE {plans[CHOOSE i \in hits : \A j \in hits : i <= j]}

\* subscribe that takes the service's first plan, whatever planId says
subscribeLookupAnyPlan(body) ==
    LET serviceId == Field(body, "serviceId", "")
        planId == Field(body, "planId", "")
        service == getAvailableService(serviceId)
    IN  IF Falsy(serviceId) \/ Falsy(planId) THEN [status |-> 400, service |-> {}, plan |-> {}]
        ELSE IF service = {} THEN [status |-> 404, service |-> {}, plan |-> {}]
        ELSE [status |-> 0, service |-> service,
              plan |-> {(CHOOSE s \in service : TRUE).plans[1]}]

\* routes.ts lines 147-163: the checks before anything is computed.
\* Result: the status answered (0: none yet), the service and the plan found.
subscribeLookup(body) ==
    LET serviceId == Field(body, "serviceId", "")
        planId == Field(body, "planId", "")
        service == getAvailableService(serviceId)
        plans == UNION {findPlan(s.plans, planId) : s \in service}
    IN  IF Falsy(serviceId) \/ Falsy(planId) THEN [status |-> 400, service |-> {}, plan |-> {}]
        ELSE IF service = {} THEN [status |-> 404, service |-> {}, plan |-> {}]
        ELSE IF plans = {} THEN [status |-> 404, service |-> service, plan |-> {}]
        ELSE [status |-> 0, service |-> service, plan |-> plans]

\* routes.ts lines 165-176: renewalDate and expirationDate, as instants
subscriptionDates(billingCycle, t) ==
    IF billingCycle = "annual"
    THEN [renewalDate |-> setFullYearNext(t), expirationDate |-> setFullYearNext(t)]
    ELSE [renewalDate |-> setMonthNext(t), expirationDate |-> setMonthNext(t)]

\* routes.ts lines 178-190: the record handed to createSubscription
SubscribeFields == {"name", "category", "cost", "billingCycle", "renewalDate",
                    "expirationDate", "status", "logoUrl", "description"}
subscriptionData(service, selectedPlan, t) ==
    LET dates == subscriptionDates(selectedPlan.billingCycle, t)
    IN  [f \in SubscribeFields |->
            CASE f = "name" -> service.name \o " - " \o selectedPlan.name
              [] f = "category" -> service.category
              [] f = "cost" -> NumberToString(selectedPlan.price)
              [] f = "billingCycle" -> selectedPlan.billingCycle
              [] f = "renewalDate" -> toISOString(dates.renewalDate)
              [] f = "expirationDate" -> toISOString(dates.expirationDate)
              [] f = "status" -> "active"
              [] f = "logoUrl" -> service.logoUrl
              [] f = "description" -> service.description]

\* POST /api/subscriptions/subscribe.  As in POST /api/subscriptions, the
\* caller's email is a second argument createSubscription never sees.
Subscribe(cookie, outcome, body) ==
    LET req == attachUser(cookie, outcome)
        rq == [Request("POST /api/subscriptions/subscribe", cookie, outcome, req)
                  EXCEPT !.reqBody = body]
        lk == subscribeLookup(body)
        service == CHOOSE s \in lk.service : TRUE
        selectedPlan == CHOOSE pl \in lk.plan : TRUE
        data == subscriptionData(service, selectedPlan, now)
        cs == createSubscription(data)
    IN  /\ OnlySessions(req)
        /\ UNCHANGED launches
        /\ IF ~requireAuth(req)
           THEN resp' = Unauthorized(rq) /\ UNCHANGED subscriptions
           ELSE IF lk.status # 0
           THEN /\ resp' = [rq EXCEPT !.status = lk.status, !.ran = TRUE]
                /\ UNCHANGED subscriptions
           ELSE IF cs.threw
           THEN /\ resp' = [rq EXCEPT !.status = 500, !.ran = TRUE, !.data = data]
                /\ UNCHANGED subscriptions
           ELSE /\ subscriptions' = subscriptions \cup {cs.row}
                /\ resp' = [rq EXCEPT !.status = 201, !.ran = TRUE, !.data = data,
                                      !.id = cs.row.id, !.body = {cs.row}]

\* ------------------------------------------------- requests between awaits
\* A handler gives way to other requests at each await.  The actions below run
\* a handler one awaited call at a time; the slot keeps its locals.
OnlySessionsOf(req) ==
    /\ sessions' = req.store
    /\ UNCHANGED <<users, availableServices, nextSid, now, loggedOut, client>>

NoTable == UNCHANGED <<users, availableServices, sessions, nextSid, now, loggedOut, client>>

\* the slot after the middleware: refused at once (status # 0) or on its way
Received(route, cookie, req, status, next) ==
    [Idle EXCEPT !.pc = IF status # 0 THEN "done" ELSE next, !.route = route,
                 !.cookie = cookie, !.currentUser = req.currentUser, !.status = status]

\* the response of the request in a slot
ResponseOf(p, status) ==
    [NoResp EXCEPT !.route = p.route, !.status = status, !.cookie = p.cookie,
                   !.sessionID = p.cookie, !.isAuthenticated = p.currentUser # NoUser,
                   !.currentUser = p.currentUser, !.ran = p.currentUser # NoUser,
                   !.id = p.id, !.reqBody = p.body, !.email = p.email,
                   !.owned = Owns(p.currentUser.email, p.id)]

\* PATCH /api/subscriptions/:id up to its await: attachUser, requireAuth, parse
PatchReceive(slot, cookie, outcome, id, body) ==
    LET req == attachUser(cookie, outcome)
        status == IF ~requireAuth(req) THEN 401
                  ELSE IF ~SchemaAccepts(body, TRUE) THEN 400 ELSE 0
        p == [Received("PATCH /api/subscriptions/:id", cookie, req, status, "update")
                 EXCEPT !.id = id, !.body = body]
    IN  /\ pending[slot].pc = "idle"
        /\ OnlySessionsOf(req)
        /\ UNCHANGED <<subscriptions, launches>>
        /\ pending' = [pending EXCEPT ![slot] = p]
        /\ resp' = IF status # 0 THEN [ResponseOf(p, status) EXCEPT !.valid = status # 400]
                   ELSE resp

\* PATCH: await storage.updateSubscription(...), then the answer
PatchUpdate(slot) ==
    LET p == pending[slot]
        us == updateSubscription(p.id, Validated(p.body), NoDate, p.currentUser.email)
        status == IF us.threw THEN 500 ELSE IF us.returned = {} THEN 404 ELSE 200
    IN  /\ p.pc = "update"
        /\ NoTable
        /\ UNCHANGED launches
        /\ subscriptions' = us.table
        /\ pending' = [pending EXCEPT ![slot] = [p EXCEPT !.pc = "done", !.status = status]]
        /\ resp' = [ResponseOf(p, status) EXCEPT !.body = us.returned]

\* POST /api/auth/login up to its first await: attachUser and the email check
LoginReceive(slot, cookie, outcome, email, name) ==
    LET req == attachUser(cookie, outcome)
        status == IF emailMissing(email) THEN 400 ELSE 0
        p == [Received("POST /api/auth/login", cookie, req, status, "lookup")
                 EXCEPT !.email = email, !.name = name]
    IN  /\ pending[slot].pc = "idle"
        /\ OnlySessionsOf(req)
        /\ UNCHANGED <<subscriptions, launches>>
        /\ pending' = [pending EXCEPT ![slot] = p]
        /\ resp' = IF status # 0 THEN [ResponseOf(p, status) EXCEPT !.valid = FALSE] ELSE resp

\* loginUser: let user = await storage.getUserByEmail(email)
LoginLookup(slot) ==
    LET p == pending[slot]
        found == getUserByEmail(p.email)
    IN  /\ p.pc = "lookup"
        /\ NoTable
        /\ UNCHANGED <<subscriptions, launches, resp>>
        /\ pending' = [pending EXCEPT ![slot] =
                          [p EXCEPT !.found = found, !.user = found,
                                    !.pc = IF found = NoUser THEN "create" ELSE "session"]]

\* users.email is unique: an insert of an email the table holds is rejected
createUserRejected(insertUser) == \E u \in users : u.email = insertUser.email

\* loginUser: user = await storage.createUser(...); a rejected insert rejects
\* loginUser, and the route answers 500
LoginCreate(slot) ==
    LET p == pending[slot]
        insertUser == [email |-> p.email, name |-> IF p.name = "" THEN "User" ELSE p.name]
        user == createUser(insertUser)
    IN  /\ p.pc = "create"
        /\ UNCHANGED <<subscriptions, launches, availableServices, sessions, nextSid, now,
                       loggedOut, client>>
        /\ IF createUserRejected(insertUser)
           THEN /\ UNCHANGED users
                /\ pending' = [pending EXCEPT ![slot] = [p EXCEPT !.pc = "done", !.status = 500]]
                /\ resp' = ResponseOf(p, 500)
           ELSE /\ users' = users \cup {user}
                /\ pending' = [pending EXCEPT ![slot] = [p EXCEPT !.pc = "session", !.user = user]]
                /\ UNCHANGED resp

\* loginUser: regenerate, set the session data, save; then the answer
LoginSession(slot) ==
    LET p == pending[slot]
        ls == loginSession([store |-> sessions], ReqSessionID(p.cookie), p.user,
                           TRUE, TRUE, TRUE)
    IN  /\ p.pc = "session"
        /\ ls.sid <= MaxSid
        /\ UNCHANGED <<users, subscriptions, launches, availableServices, now, loggedOut,
                       client>>
        /\ sessions' = ls.store
        /\ nextSid' = ls.sid + 1
        /\ pending' = [pending EXCEPT ![slot] = [p EXCEPT !.pc = "done", !.status = 200]]
        /\ resp' = [ResponseOf(p, 200) EXCEPT !.user = p.user, !.newSid = ls.sid]

\* POST /api/subscriptions/:id/launch up to its first await
LaunchReceive(slot, cookie, outcome, id) ==
    LET req == attachUser(cookie, outcome)
        status == IF ~requireAuth(req) THEN 401 ELSE 0
        p == [Received("POST /api/subscriptions/:id/launch", cookie, req, status, "get")
                 EXCEPT !.id = id]
    IN  /\ pending[slot].pc = "idle"
        /\ OnlySessionsOf(req)
        /\ UNCHANGED <<subscriptions, launches>>
        /\ pending' = [pending EXCEPT ![slot] = p]
        /\ resp' = IF status # 0 THEN ResponseOf(p, status) ELSE resp

\* launch: const subscription = await storage.getSubscription(...); 404 if none
LaunchGet(slot) ==
    LET p == pending[slot]
        found == getSubscription(p.id, p.currentUser.email)
    IN  /\ p.pc = "get"
        /\ NoTable
        /\ UNCHANGED <<subscriptions, launches>>
        /\ IF found = {}
           THEN /\ pending' = [pending EXCEPT ![slot] = [p EXCEPT !.pc = "done", !.status = 404]]
                /\ resp' = ResponseOf(p, 404)
           ELSE /\ pending' = [pending EXCEPT ![slot] =
                                  [p EXCEPT !.pc = "track", !.subscription = found]]
                /\ UNCHANGED resp

\* launch: await storage.trackServiceLaunch(...), with the name read before
LaunchTrack(slot) ==
    LET p == pending[slot]
        subscription == CHOOSE s \in p.subscription : TRUE
    IN  /\ p.pc = "track"
        /\ Len(launches) < MaxLaunches
        /\ NoTable
        /\ UNCHANGED <<subscriptions, resp>>
        /\ launches' = trackServiceLaunch([subscriptionId |-> p.id,
                                           userEmail |-> p.currentUser.email,
                                           serviceName |-> subscription.name])
        /\ pending' = [pending EXCEPT ![slot] = [p EXCEPT !.pc = "touch"]]

\* launch: await storage.updateSubscription(id, {lastUsed}, email), whose result
\* is not looked at; then res.json({success: true, launch})
LaunchTouch(slot) ==
    LET p == pending[slot]
        us == updateSubscription(p.id, [f \in {"lastUsed"} |-> ""], now, p.currentUser.email)
    IN  /\ p.pc = "touch"
        /\ NoTable
        /\ UNCHANGED launches
        /\ subscriptions' = us.table
        /\ pending' = [pending EXCEPT ![slot] = [p EXCEPT !.pc = "done", !.status = 200]]
        /\ resp' = ResponseOf(p, 200)

\* ------------------------------------------------------------ the dashboard
\* Strings the dashboard searches and orders, as the characters they are made of.
Chars(str) ==
    CASE str = "Netflix" -> <<"N", "e", "t", "f", "l", "i", "x">>
      [] str = "Hulu" -> <<"H", "u", "l", "u">>
      [] str = "Spotify" -> <<"S", "p", "o", "t", "i", "f", "y">>
      [] str = "iCloud" -> <<"i", "C", "l", "o", "u", "d">>
      [] str = "Gym" -> <<"G", "y", "m">>
      [] str = "HBO" -> <<"H", "B", "O">>
      [] str = "net" -> <<"n", "e", "t">>
      [] str = "NET" -> <<"N", "E", "T">>
      [] str = "lu" -> <<"l", "u">>
      [] str = "zz" -> <<"z", "z">>
      [] OTHER -> <<>>

LowerCase ==
    <<"a", "b", "c", "d", "e", "f", "g", "h", "i", "j", "k", "l", "m",
      "n", "o", "p", "q", "r", "s", "t", "u", "v", "w", "x", "y", "z">>
UpperCase ==
    <<"A", "B", "C", "D", "E", "F", "G", "H", "I", "J", "K", "L", "M",
      "N", "O", "P", "Q", "R", "S", "T", "U", "V", "W", "X", "Y", "Z">>

\* the place of a letter in the alphabet, whatever its case
Rank(ch) == CHOOSE i \in 1..26 : ch \in {LowerCase[i], UpperCase[i]}

\* String.prototype.toLowerCase
toLowerCase(str) ==
    [i \in 1..Len(str) |-> IF \E j \in 1..26 : UpperCase[j] = str[i]
                           THEN LowerCase[Rank(str[i])] ELSE str[i]]

\* String.prototype.includes
includes(str, search) ==
    \E i \in 0..(Len(str) - Len(search)) : SubSeq(str, i + 1, i + Len(search)) = search

\* String.prototype.localeCompare of two names made of letters: by the letters,
\* whatever their case, the shorter of a name and its extension first
RECURSIVE localeCompare(_, _, _)
localeCompare(a, b, i) ==
    IF i > Len(a) /\ i > Len(b) THEN 0
    ELSE IF i > Len(a) THEN -1
    ELSE IF i > Len(b) THEN 1
    ELSE IF Rank(a[i]) < Rank(b[i]) THEN -1
    ELSE IF Rank(a[i]) > Rank(b[i]) THEN 1
    ELSE localeCompare(a, b, i + 1)

\* Amounts of money are counted in cents; the column cost is decimal(10, 2) and
\* reaches the browser as text.
Amounts == {500, 1000, 1500, 1599, 2500, 5000, 6000}
DecimalText(cents) == ToString(cents \div 100) \o "." \o Pad2(cents % 100)

\* parseFloat of a cost, in cents
parseFloat(str) ==
    IF \E c \in Amounts : DecimalText(c) = str
    THEN CHOOSE c \in Amounts : DecimalText(c) = str
    ELSE NaN

\* Math.ceil(numerator / denominator)
MathCeil(numerator, denominator) == 0 - ((0 - numerator) \div denominator)

\* Math.ceil((new Date(date).getTime() - now.getTime()) / (1000 * 60 * 60 * 24))
daysDiff(date, t) == MathCeil(NewDate(date) - t, TicksPerDay)

\* getExpirationUrgency with the bounds of critical and warning exchanged
getExpirationUrgencySwapped(expirationDate, t) ==
    IF expirationDate = JsonNull THEN "none"
    ELSE IF daysDiff(expirationDate, t) < 0 THEN "none"
    ELSE IF daysDiff(expirationDate, t) <= 3 THEN "warning"
    ELSE IF daysDiff(expirationDate, t) <= 7 THEN "critical"
    ELSE IF daysDiff(expirationDate, t) <= 30 THEN "info"
    ELSE "none"

\* Dashboard getExpirationUrgency: the level, "none" for null
getExpirationUrgency(expirationDate, t) ==
    IF expirationDate = JsonNull THEN "none"
    ELSE IF daysDiff(expirationDate, t) < 0 THEN "none"
    ELSE IF daysDiff(expirationDate, t) <= 3 THEN "critical"
    ELSE IF daysDiff(expirationDate, t) <= 7 THEN "warning"
    ELSE IF daysDiff(expirationDate, t) <= 30 THEN "info"
    ELSE "none"

\* Dashboard urgentExpirations
urgentExpirations(expiringSubscriptions, t) ==
    LET Urgent(sub) ==
            /\ getExpirationUrgency(sub.expirationDate, t) = "critical"
            /\ daysDiff(sub.expirationDate, t) >= 0
    IN  SelectSeq(expiringSubscriptions, Urgent)

\* Sums of money are exact: they are counted in twelfths of a cent, so that
\* cost / 12 is a whole number of them.
\* What one subscription adds to a total of the metrics cards that count
\* every status:
AddendOfAnyStatus(total, sub) ==
    CASE total = "totalMonthly" ->
            IF sub.billingCycle = "monthly" THEN 12 * parseFloat(sub.cost)
            ELSE IF sub.billingCycle = "annual" THEN (12 * parseFloat(sub.cost)) \div 12
            ELSE 0
      [] total = "totalAnnual" ->
            IF sub.billingCycle = "annual" THEN 12 * parseFloat(sub.cost)
            ELSE IF sub.billingCycle = "monthly" THEN (12 * parseFloat(sub.cost)) * 12
            ELSE 0
      [] total = "totalMonthlySpend" ->
            IF sub.billingCycle = "annual" THEN (12 * parseFloat(sub.cost)) \div 12
            ELSE 12 * parseFloat(sub.cost)

\* What one subscription adds to a total: of the metrics cards (filter on
\* status "active", then reduce) or of the dashboard's summary (reduce)
Addend(total, sub) ==
    CASE total = "totalMonthly" ->
            IF sub.status # "active" THEN 0
            ELSE IF sub.billingCycle = "monthly" THEN 12 * parseFloat(sub.cost)
            ELSE IF sub.billingCycle = "annual" THEN (12 * parseFloat(sub.cost)) \div 12
            ELSE 0
      [] total = "totalAnnual" ->
            IF sub.status # "active" THEN 0
            ELSE IF sub.billingCycle = "annual" THEN 12 * parseFloat(sub.cost)
            ELSE IF sub.billingCycle = "monthly" THEN (12 * parseFloat(sub.cost)) * 12
            ELSE 0
      [] total = "totalMonthlySpend" ->
            IF sub.billingCycle = "annual" THEN (12 * parseFloat(sub.cost)) \div 12
            ELSE 12 * parseFloat(sub.cost)

\* Array.prototype.reduce((sum, sub) => sum + ..., 0), from position i on
RECURSIVE reduce(_, _, _)
reduce(subs, i, total) ==
    IF i > Len(subs) THEN 0
    ELSE Addend(total, subs[i]) + reduce(subs, i + 1, total)

\* metrics-cards.tsx metrics
MetricsCards(subs, t) ==
    LET Active(sub) == sub.status = "active"
        Soon(sub) ==
            /\ sub.status = "active"
            /\ daysDiff(sub.renewalDate, t) <= 30
            /\ daysDiff(sub.renewalDate, t) >= 0
    IN  [totalMonthly |-> reduce(subs, 1, "totalMonthly"),
         totalAnnual |-> reduce(subs, 1, "totalAnnual"),
         activeCount |-> Len(SelectSeq(subs, Active)),
         expiringSoon |-> Len(SelectSeq(subs, Soon))]

\* Dashboard useState<Filters>: the filters a page starts with
DefaultFilters ==
    [search |-> "", category |-> "", costRange |-> {}, status |-> {"active", "expiring"},
     renewalDate |-> ""]

\* the cost ranges with both of their ends left out
matchesRangeOpen(cost, range) ==
    CASE range = "under-10" -> cost < 1000
      [] range = "10-25" -> cost > 1000 /\ cost < 2500
      [] range = "25-50" -> cost > 2500 /\ cost < 5000
      [] range = "over-50" -> cost > 5000
      [] OTHER -> TRUE

\* the switch of the cost range filter
matchesRange(cost, range) ==
    CASE range = "under-10" -> cost < 1000
      [] range = "10-25" -> cost >= 1000 /\ cost <= 2500
      [] range = "25-50" -> cost >= 2500 /\ cost <= 5000
      [] range = "over-50" -> cost > 5000
      [] OTHER -> TRUE

\* the switch of the renewal date filter
renewalWithin(window, days) ==
    CASE window = "next-7" -> days <= 7 /\ days >= 0
      [] window = "next-30" -> days <= 30 /\ days >= 0
      [] window = "next-90" -> days <= 90 /\ days >= 0
      [] OTHER -> TRUE

\* the callback of subscriptions.filter: what it returns for one subscription
keeps(sub, filters, t) ==
    IF filters.search # ""
       /\ ~includes(toLowerCase(Chars(sub.name)), toLowerCase(Chars(filters.search)))
    THEN FALSE
    ELSE IF filters.category # "" /\ filters.category # "all"
            /\ sub.category # filters.category
    THEN FALSE
    ELSE IF filters.status # {} /\ sub.status \notin filters.status
    THEN FALSE
    ELSE IF filters.costRange # {}
            /\ ~\E range \in filters.costRange : matchesRange(parseFloat(sub.cost), range)
    THEN FALSE
    ELSE IF filters.renewalDate # ""
    THEN renewalWithin(filters.renewalDate, daysDiff(sub.renewalDate, t))
    ELSE TRUE

\* Dashboard filteredSubscriptions
filteredSubscriptions(subs, filters, t) ==
    LET Keeps(sub) == keeps(sub, filters, t)
    IN  SelectSeq(subs, Keeps)

\* the comparator of sortedSubscriptions: negative, zero or positive
compare(a, b, sortBy) ==
    CASE sortBy = "cost-high" -> parseFloat(b.cost) - parseFloat(a.cost)
      [] sortBy = "cost-low" -> parseFloat(a.cost) - parseFloat(b.cost)
      [] sortBy = "renewal" -> NewDate(a.renewalDate) - NewDate(b.renewalDate)
      [] OTHER -> localeCompare(Chars(a.name), Chars(b.name), 1)

\* Array.prototype.sort is stable: an element goes behind those that compare
\* lower or equal
insert(sorted, x, sortBy) ==
    LET before == SelectSeq(sorted, LAMBDA e : compare(e, x, sortBy) <= 0)
        after == SelectSeq(sorted, LAMBDA e : compare(e, x, sortBy) > 0)
    IN  before \o <<x>> \o after

\* [...filteredSubscriptions].sort(comparator), the first n elements
RECURSIVE sortedSubscriptions(_, _, _)
sortedSubscriptions(filtered, n, sortBy) ==
    IF n = 0 THEN <<>>
    ELSE insert(sortedSubscriptions(filtered, n - 1, sortBy), filtered[n], sortBy)

\* What one render of the dashboard computes from the two queries' data, the
\* filters, the sort order and the clock it reads.
Dashboard(subs, expiring, filters, sortBy, t) ==
    LET filtered == filteredSubscriptions(subs, filters, t)
    IN  [at |-> t,
         metrics |-> MetricsCards(subs, t),
         totalMonthlySpend |-> reduce(subs, 1, "totalMonthlySpend"),
         urgency |-> [i \in DOMAIN subs |->
                         getExpirationUrgency(subs[i].expirationDate, t)],
         urgentExpirations |-> urgentExpirations(expiring, t),
         filtered |-> filtered,
         sorted |-> sortedSubscriptions(filtered, Len(filtered), sortBy)]

\* React renders the page with the state the browser now has.
Render(c, t) ==
    [c EXCEPT !.view = Dashboard(c.queries[<<"/api/subscriptions">>].data,
                                 c.queries[<<"/api/subscriptions/expiring?days=30">>].data,
                                 c.filters, c.sortBy, t)]

\* ------------------------------------------------------------- the browser
\* The browser keeps the session cookie, the auth context's React state, the
\* auth query and the mutations' pending flags, and has one request in flight
\* at a time (sent).  afterLogout is history: a logout has settled and no
\* login has succeeded since.
NoData == [loaded |-> FALSE, user |-> NoUser]
ListKey == <<"/api/subscriptions">>
ExpiringKey == <<"/api/subscriptions/expiring?days=30">>
NoQuery == [loaded |-> FALSE, data |-> <<>>, isInvalidated |-> FALSE]
Mounted(cookie) ==
    [open |-> TRUE, cookie |-> cookie, sent |-> "me", arg |-> "",
     user |-> NoUser, isAuthenticated |-> FALSE,
     authData |-> NoData, authLoading |-> TRUE,
     loginPending |-> FALSE, logoutPending |-> FALSE, afterLogout |-> FALSE,
     queries |-> [k \in {ListKey, ExpiringKey} |-> NoQuery],
     filters |-> DefaultFilters, sortBy |-> "name",
     view |-> Dashboard(<<>>, <<>>, DefaultFilters, "name", 0)]

\* a step of the browser: the page is rendered anew, the server's state stays
\* as it is
Browser(c) ==
    /\ client' = Render(c, now)
    /\ UNCHANGED <<users, subscriptions, launches, availableServices, sessions, nextSid,
                   now, loggedOut, pending>>

\* the request goes out: no response yet
Send(c) == resp' = NoResp /\ Browser(c)

\* the browser keeps the session cookie the response sets
SetCookie(c) == IF resp.newSid # 0 THEN [c EXCEPT !.cookie = resp.newSid] ELSE c

\* auth-context.tsx useEffect on [authQuery.data, authQuery.isLoading]: it runs
\* when one of the two changed
authEffect(c, was) ==
    IF c.authData = was.authData /\ c.authLoading = was.authLoading THEN c
    ELSE IF c.authData.user # NoUser
    THEN [c EXCEPT !.user = c.authData.user, !.isAuthenticated = TRUE]
    ELSE IF ~c.authLoading
    THEN [c EXCEPT !.user = NoUser, !.isAuthenticated = FALSE]
    ELSE c

\* the auth query fetches GET /api/auth/me again: every minute, on window focus,
\* and when its cached entry was invalidated or removed
AuthFetch ==
    /\ client.sent = ""
    /\ Send(authEffect([client EXCEPT !.sent = "me",
                                      !.authLoading = ~client.authData.loaded], client))

\* authQuery.queryFn settles: null on 401 and on any failure, else the body
AuthSettle ==
    /\ client.sent = "me" /\ resp # NoResp
    /\ resp' = NoResp
    /\ Browser(authEffect(
           [client EXCEPT !.sent = "",
                          !.authData = [loaded |-> TRUE,
                                        user |-> IF resp.status = 200 THEN resp.user
                                                 ELSE NoUser],
                          !.authLoading = FALSE], client))

\* login(email, name): loginMutation.mutate
LoginSend ==
    /\ client.sent = "" /\ client.user = NoUser
    /\ Send([client EXCEPT !.sent = "login", !.loginPending = TRUE])

\* queryClient.invalidateQueries(): every query is invalidated
invalidateAll(queries) == [k \in DOMAIN queries |-> [queries[k] EXCEPT !.isInvalidated = TRUE]]

\* loginMutation settles: onSuccess sets the user and invalidates every query,
\* so the mounted auth query fetches again; onError clears the user
LoginSettle ==
    /\ client.sent = "login" /\ resp # NoResp
    /\ LET c == SetCookie([client EXCEPT !.loginPending = FALSE])
       IN  IF resp.status = 200 /\ resp.user # NoUser
           THEN Send([c EXCEPT !.user = resp.user, !.isAuthenticated = TRUE,
                               !.afterLogout = FALSE, !.sent = "me",
                               !.queries = invalidateAll(c.queries)])
           ELSE /\ resp' = NoResp
                /\ Browser([c EXCEPT !.user = NoUser, !.isAuthenticated = FALSE,
                                     !.sent = ""])

\* logout(): logoutMutation.mutate
LogoutSend ==
    /\ client.sent = ""
    /\ Send([client EXCEPT !.sent = "logout", !.logoutPending = TRUE])

\* logoutMutation onSuccess and onError alike: clear the user and
\* queryClient.clear().  The auth query, still mounted, starts anew and fetches.
logoutSettled(c) ==
    [c EXCEPT !.logoutPending = FALSE, !.user = NoUser, !.isAuthenticated = FALSE,
              !.afterLogout = TRUE, !.sent = "me",
              !.authData = NoData, !.authLoading = TRUE,
              !.queries = [k \in DOMAIN c.queries |-> NoQuery]]

\* the server answered the logout, with 200 or not
LogoutSettle ==
    /\ client.sent = "logout" /\ resp # NoResp
    /\ Send(logoutSettled(client))

\* the logout request never reached the server: apiRequest rejects
LogoutLost ==
    /\ client.sent = "logout" /\ resp = NoResp
    /\ Send(logoutSettled(client))

\* auth-context.tsx isLoading
isLoading(c) == c.authLoading \/ c.loginPending \/ c.logoutPending

\* protected-route.tsx ProtectedRoute: what it renders
ProtectedRoute(c) ==
    IF isLoading(c) THEN "spinner"
    ELSE IF ~c.isAuthenticated \/ c.user = NoUser THEN "LoginPage"
    ELSE "children"

\* ---------------------------------------------------------- the query cache
\* JSON.stringify of a timestamp column: its ISO text, or null
JsonDate(t) == IF t = NoDate THEN JsonNull ELSE IsoTable[t]

\* res.json(row): the row as the browser receives it
Json(row) ==
    [row EXCEPT !.renewalDate = JsonDate(row.renewalDate),
                !.expirationDate = JsonDate(row.expirationDate),
                !.lastUsed = JsonDate(row.lastUsed)]

\* the arrays that hold the rows of a result, in any order
ArraysOf(rows) ==
    {a \in [1..Cardinality(rows) -> rows] : \A i, j \in DOMAIN a : a[i] = a[j] => i = j}

\* react-query partialMatchKey: a query matches a filter key that is a prefix
\* of its key, element by element
partialMatchKey(queryKey, filterKey) ==
    /\ Len(filterKey) <= Len(queryKey)
    /\ \A i \in 1..Len(filterKey) : queryKey[i] = filterKey[i]

\* queryClient.invalidateQueries({ queryKey })
invalidateQueries(queries, filterKey) ==
    [k \in DOMAIN queries |->
        IF partialMatchKey(k, filterKey) THEN [queries[k] EXCEPT !.isInvalidated = TRUE]
        ELSE queries[k]]

\* useQuery fetches the URL its key names: when mounted, when invalidated, and
\* whenever the query client has it refetch
QueryFetch(key) ==
    /\ client.sent = "" /\ client.user # NoUser
    /\ Send([client EXCEPT !.sent = "query", !.arg = key[1]])

\* the query settles: the rows of a 200 become its data
QuerySettle ==
    /\ client.sent = "query" /\ resp # NoResp
    /\ resp' = NoResp
    /\ IF resp.status = 200
       THEN \E a \in ArraysOf({Json(row) : row \in resp.body}) :
               Browser([client EXCEPT
                          !.sent = "", !.arg = "",
                          !.queries[<<client.arg>>] =
                              [loaded |-> TRUE, data |-> a, isInvalidated |-> FALSE]])
       ELSE Browser([client EXCEPT !.sent = "", !.arg = ""])

\* the rows the dashboard shows a card for
CardIds == {client.queries[ListKey].data[i].id : i \in DOMAIN client.queries[ListKey].data}

\* the mutations of the subscription pages
Mutations == {"add", "edit", "status", "delete", "subscribe"}

\* mutation.mutate(...): the request of one of the mutations goes out
Mutate(kind, id) ==
    /\ client.sent = "" /\ client.user # NoUser
    /\ kind \in Mutations
    /\ kind \in {"edit", "status", "delete"} => id \in CardIds
    /\ Send([client EXCEPT !.sent = kind, !.arg = id])

\* the query keys each mutation invalidates when it succeeds
onSuccessKeys(kind) ==
    CASE kind = "add" -> {ListKey}          \* add-subscription-dialog.tsx
      [] kind = "edit" -> {ListKey}         \* edit-subscription-dialog.tsx
      [] kind = "status" -> {ListKey}       \* subscription-card.tsx updateStatusMutation
      [] kind = "delete" -> {ListKey}       \* subscription-card.tsx deleteMutation
      [] kind = "subscribe" -> {ListKey, ExpiringKey}   \* service-card.tsx

\* the queries after every key of the set was invalidated
invalidateEach(queries, keys) ==
    [k \in DOMAIN queries |->
        IF \E f \in keys : invalidateQueries(queries, f)[k].isInvalidated
        THEN [queries[k] EXCEPT !.isInvalidated = TRUE] ELSE queries[k]]

\* the response the mutation succeeds on (apiRequest rejects on any other)
Ok(r) == r.status \in 200..299

\* the mutation settles: onSuccess invalidates, onError shows a toast
MutationSettle ==
    /\ client.sent \in Mutations /\ resp # NoResp
    /\ resp' = NoResp
    /\ Browser([client EXCEPT
                  !.sent = "", !.arg = "",
                  !.queries = IF Ok(resp)
                              THEN invalidateEach(client.queries, onSuccessKeys(client.sent))
                              ELSE client.queries])

\* FilterSidebar onFiltersChange, with no request in flight
SetFilters(filters) ==
    /\ client.sent = "" /\ client.user # NoUser /\ filters # client.filters
    /\ resp' = resp
    /\ Browser([client EXCEPT !.filters = filters])

\* Select onValueChange, with no request in flight
SetSortBy(sortBy) ==
    /\ client.sent = "" /\ client.user # NoUser /\ sortBy # client.sortBy
    /\ resp' = resp
    /\ Browser([client EXCEPT !.sortBy = sortBy])

\* The clock advances between requests.
Tick ==
    /\ now < MaxNow
    /\ now' = now + 1
    /\ resp' = NoResp
    /\ UNCHANGED <<users, subscriptions, launches, availableServices, sessions, nextSid,
                   loggedOut, pending, client>>

\* -------------------------------------------------------------------- inputs
Cookies == 0..(nextSid - 1)                      \* none, or any id ever issued
LiveCookies == {NoCookie} \cup DOMAIN sessions   \* none, or the id of a stored session
IdParams == SubIds \cup {UnknownId}

\* values of the ?days= query parameter, as sequences of characters
DaysParams ==
    {Undefined, <<>>, <<"0">>, <<"1">>, <<"2">>, <<"0", "1">>, <<"1", "0">>,
     <<"-", "1">>, <<"+", "1">>, <<"a">>, <<"1", "a">>, <<"a", "1">>}

\* the marketplace catalog, seeded out of band
Plan(id, name, units, cents, billingCycle) ==
    [id |-> id, name |-> name, price |-> [units |-> units, cents |-> cents],
     billingCycle |-> billingCycle]
Catalog ==
    {[id |-> "netflix", name |-> "Netflix", category |-> "Streaming",
      logoUrl |-> "netflix.png", description |-> "Films and series",
      plans |-> <<Plan("basic", "Basic", 9, 99, "monthly"),
                  Plan("year", "Annual", 99, 0, "annual")>>],
     [id |-> "hulu", name |-> "Hulu", category |-> "Streaming",
      logoUrl |-> "hulu.png", description |-> "Television",
      plans |-> <<Plan("duo", "Duo", 7, 90, "monthly")>>]}

\* rows the database holds when the server starts
SeedRow(id, owner, exp) ==
    [id |-> id, userEmail |-> owner, name |-> "Netflix", category |-> "Streaming",
     cost |-> "15.99", billingCycle |-> "monthly", renewalDate |-> 2 * TicksPerDay,
     expirationDate |-> exp, status |-> "active", logoUrl |-> JsonNull,
     description |-> JsonNull, lastUsed |-> NoDate]
Tables(rows) == {t \in SUBSET rows : \A r1, r2 \in t : r1.id = r2.id => r1 = r2}

SeedUser(i, email) == [id |-> i, email |-> email, name |-> "User"]

FullBody ==
    [f \in RequiredFields |->
        CASE f = "name" -> "Netflix" [] f = "category" -> "Streaming" [] f = "cost" -> "15.99"
          [] f = "billingCycle" -> "monthly" [] f = "renewalDate" -> "2025-01-01"
          [] f = "status" -> "active"]
PostBodies ==
    {FullBody,
     [f \in RequiredFields \cup {"userEmail"} |->
        IF f = "userEmail" THEN "b@x.com" ELSE FullBody[f]],
     [f \in RequiredFields \ {"name"} |-> FullBody[f]],
     [FullBody EXCEPT !["cost"] = ""]}
PatchBodies ==
    {[f \in {"status"} |-> "inactive"],
     [f \in {"status"} |-> NotAString],
     [f \in {"renewalDate"} |-> "soon"],
     [f \in {} |-> ""]}

InitWith(userTables, tables, clock) ==
    /\ users \in userTables
    /\ subscriptions \in tables
    /\ launches = <<>>
    /\ availableServices = Catalog
    /\ sessions = [x \in {} |-> EmptySession]
    /\ nextSid = 1
    /\ now \in clock
    /\ loggedOut = {}
    /\ resp = NoResp
    /\ pending = NonePending
    /\ client = NoClient

\* ---------------------------------------------------------------------------
\* Spec: the subscription routes.  The users exist, the database holds rows of
\* both of them, every session-store call and user lookup succeeds.
\* ---------------------------------------------------------------------------
SpecRows ==
    {SeedRow("s1", o, 1) : o \in Emails} \cup {SeedRow("s2", "b@x.com", 1)}

Init == InitWith({{SeedUser(1, "a@x.com"), SeedUser(2, "b@x.com")}}, Tables(SpecRows), {0})

Next ==
    \/ \E c \in LiveCookies, e \in Emails : Login(c, "row", e, "", TRUE, TRUE, TRUE)
    \/ \E c \in LiveCookies : GetSubscriptions(c, "row")
    \/ \E c \in LiveCookies : GetExpiring(c, "row", Undefined)
    \/ \E c \in LiveCookies, i \in IdParams : GetSubscription(c, "row", i)
    \/ \E c \in LiveCookies, b \in PostBodies : PostSubscription(c, "row", b)
    \/ \E c \in LiveCookies, i \in IdParams, b \in PatchBodies : PatchSubscription(c, "row", i, b)
    \/ \E c \in LiveCookies, i \in IdParams : DeleteSubscription(c, "row", i)
    \/ \E c \in LiveCookies : Len(launches) < MaxLaunchesCrud /\ Launch(c, "row", "s1")
    \/ \E c \in LiveCookies : GetLaunchStats(c, "row")

Spec == Init /\ [][Next]_vars

\* ---------------------------------------------------------------------------
\* SpecAuth: login, logout and the guard over a fresh database (no user, no
\* row), with every outcome of the user lookup and of the session store.
\* ---------------------------------------------------------------------------
InitAuth == InitWith({{}}, {{}}, {0})

\* inputs that cannot matter are not enumerated
Outcomes(c) ==
    IF HasSession(c) /\ sessions[c].isAuthenticated THEN LookupOutcomes ELSE {"row"}

NextAuth ==
    \/ \E c \in Cookies, e \in Emails, r \in BOOLEAN, sv \in BOOLEAN :
          \E o \in Outcomes(c), n \in IF getUserByEmail(e) = NoUser THEN Names ELSE {""},
             es \in IF r /\ sv THEN {TRUE} ELSE BOOLEAN : Login(c, o, e, n, r, sv, es)
    \/ \E c \in Cookies, e \in {"", NoEmail} :
          \E o \in Outcomes(c) : Login(c, o, e, "", TRUE, TRUE, TRUE)
    \/ \E c \in Cookies, d \in BOOLEAN : \E o \in Outcomes(c) : Logout(c, o, d)
    \/ \E c \in Cookies : \E o \in Outcomes(c) : GetMe(c, o)
    \/ \E c \in Cookies : \E o \in Outcomes(c) : GetSubscriptions(c, o)
    \/ \E c \in Cookies : \E o \in Outcomes(c) : GetExpiring(c, o, Undefined)
    \/ \E c \in Cookies : \E o \in Outcomes(c) : GetSubscription(c, o, "s1")
    \/ \E c \in Cookies : \E o \in Outcomes(c) : PostSubscription(c, o, FullBody)
    \/ \E c \in Cookies : \E o \in Outcomes(c) :
          PatchSubscription(c, o, "s1", [f \in {"status"} |-> "inactive"])
    \/ \E c \in Cookies : \E o \in Outcomes(c) : DeleteSubscription(c, o, "s1")
    \/ \E c \in Cookies : \E o \in Outcomes(c) :
          Len(launches) < MaxLaunchesCrud /\ Launch(c, o, "s1")
    \/ \E c \in Cookies : \E o \in Outcomes(c) : GetLaunchStats(c, o)

SpecAuth == InitAuth /\ [][NextAuth]_vars

\* ---------------------------------------------------------------------------
\* SpecGuard: the guarded routes over a database that holds a user and a row of
\* theirs, called with any session id ever issued and every outcome of the user
\* lookup; the session store succeeds.
\* ---------------------------------------------------------------------------
InitGuard ==
    InitWith({{SeedUser(1, "a@x.com")}}, {{SeedRow("s1", "a@x.com", NoDate)}}, {0})

NextGuard ==
    \/ \E c \in Cookies, e \in Emails :
          \E o \in Outcomes(c) : Login(c, o, e, "", TRUE, TRUE, TRUE)
    \/ \E c \in Cookies : \E o \in Outcomes(c) : GetSubscriptions(c, o)
    \/ \E c \in Cookies : \E o \in Outcomes(c) : GetExpiring(c, o, Undefined)
    \/ \E c \in Cookies : \E o \in Outcomes(c) : GetSubscription(c, o, "s1")
    \/ \E c \in Cookies : \E o \in Outcomes(c) : PostSubscription(c, o, FullBody)
    \/ \E c \in Cookies : \E o \in Outcomes(c) :
          PatchSubscription(c, o, "s1", [f \in {"status"} |-> "inactive"])
    \/ \E c \in Cookies : \E o \in Outcomes(c) : DeleteSubscription(c, o, "s1")
    \/ \E c \in Cookies : \E o \in Outcomes(c) :
          Len(launches) < MaxLaunchesCrud /\ Launch(c, o, "s1")
    \/ \E c \in Cookies : \E o \in Outcomes(c) : GetLaunchStats(c, o)

SpecGuard == InitGuard /\ [][NextGuard]_vars

\* ---------------------------------------------------------------------------
\* SpecExpiring: the expiring-subscriptions query over every table of seeded
\* rows, every ?days= parameter and a running clock.
\* ---------------------------------------------------------------------------
SeedExpirations == {NoDate, 1, TicksPerDay + 1}
ExpiringRows ==
    {SeedRow("s1", o, e) : o \in Emails, e \in SeedExpirations}
        \cup {SeedRow("s2", o, e) : o \in Emails, e \in {NoDate, 1}}

InitExpiring ==
    InitWith({{SeedUser(1, "a@x.com"), SeedUser(2, "b@x.com")}}, Tables(ExpiringRows), {0})

NextExpiring ==
    \/ \E c \in LiveCookies, e \in Emails : Login(c, "row", e, "", TRUE, TRUE, TRUE)
    \/ \E c \in LiveCookies, d \in DaysParams : GetExpiring(c, "row", d)
    \/ Tick

SpecExpiring == InitExpiring /\ [][NextExpiring]_vars

\* ---------------------------------------------------------------------------
\* SpecSubscribe: one-click subscribe from the catalog, at the start, the end and
\* the last days of a month, on the last day of a year and on a leap day.
\* ---------------------------------------------------------------------------
Absent == "<absent>"
ServiceIdParams == {"netflix", "hulu", "nosuch", "", Absent}
PlanIdParams == {"basic", "year", "duo", "", Absent}
SubscribeBody(serviceId, planId) ==
    LET v == [f \in {"serviceId", "planId"} |-> IF f = "serviceId" THEN serviceId ELSE planId]
    IN  [f \in {g \in {"serviceId", "planId"} : v[g] # Absent} |-> v[f]]
SubscribeBodies == {SubscribeBody(s, p) : s \in ServiceIdParams, p \in PlanIdParams}

SubscribeInstants ==
    {Instant(2025, 1, 1, 0), Instant(2025, 1, 29, 1), Instant(2025, 1, 30, 0),
     Instant(2025, 1, 31, 0), Instant(2025, 12, 31, 1), Instant(2028, 2, 29, 0)}

InitSubscribe ==
    InitWith({{SeedUser(1, "a@x.com"), SeedUser(2, "b@x.com")}},
             {{SeedRow("s1", "a@x.com", 1)}}, SubscribeInstants)

NextSubscribe ==
    \/ \E c \in LiveCookies, e \in Emails : Login(c, "row", e, "", TRUE, TRUE, TRUE)
    \/ \E c \in LiveCookies, b \in SubscribeBodies : Subscribe(c, "row", b)
    \/ \E c \in LiveCookies : GetSubscriptions(c, "row")

SpecSubscribe == InitSubscribe /\ [][NextSubscribe]_vars

\* ---------------------------------------------------------------------------
\* SpecLaunch: the launch log.  Two users each own one row and have logged in
\* (sessions 1 and 2); they launch, rename and delete rows and read their launch
\* statistics while the clock runs.
\* ---------------------------------------------------------------------------
LaunchRows == {SeedRow("s1", "a@x.com", NoDate), SeedRow("s2", "b@x.com", NoDate)}
Rename == [f \in {"name"} |-> "Hulu"]

\* the state after user 1 logged in with session 1 and user 2 with session 2
InitLoggedIn(rows) ==
    /\ users = {SeedUser(1, "a@x.com"), SeedUser(2, "b@x.com")}
    /\ subscriptions = rows
    /\ launches = <<>>
    /\ availableServices = Catalog
    /\ sessions = [sid \in {1, 2} |-> [userId |-> sid, isAuthenticated |-> TRUE]]
    /\ nextSid = 3
    /\ now = 0
    /\ loggedOut = {}
    /\ resp = NoResp
    /\ pending = NonePending
    /\ client = NoClient

InitLaunch == InitLoggedIn(LaunchRows)

NextLaunch ==
    \/ \E c \in LiveCookies, i \in IdParams : Launch(c, "row", i)
    \/ \E c \in LiveCookies : GetLaunchStats(c, "row")
    \/ \E c \in LiveCookies : PatchSubscription(c, "row", "s1", Rename)
    \/ \E c \in LiveCookies : DeleteSubscription(c, "row", "s1")
    \/ Tick

SpecLaunch == InitLaunch /\ [][NextLaunch]_vars

\* ---------------------------------------------------------------------------
\* SpecBodies: request validation.  Two users each own one row and have logged
\* in; they send POST and PATCH bodies that keep and that break the insert schema.
\* ---------------------------------------------------------------------------
StatusValues == {"active", "inactive", "expiring", "paused", ""}

BodiesPatch ==
    {[f \in {"status"} |-> v] : v \in StatusValues \cup {NotAString, JsonNull}}
        \cup {[f \in {"name"} |-> NotAString],
              [f \in {"expirationDate"} |-> JsonNull],
              [f \in {"lastUsed"} |-> "2025-01-01"],
              [f \in {"cost"} |-> ""]}

BodiesPost ==
    {FullBody}
        \cup {[f \in RequiredFields \ {g} |-> FullBody[f]] : g \in RequiredFields}
        \cup {[FullBody EXCEPT ![g] = ""] : g \in {"cost", "renewalDate"}}
        \cup {[FullBody EXCEPT ![g] = NotAString] : g \in {"name", "cost", "status"}}
        \cup {[f \in RequiredFields \cup {"lastUsed"} |->
                  IF f = "lastUsed" THEN "2025-01-01" ELSE FullBody[f]]}

InitBodies == InitLoggedIn(LaunchRows)

NextBodies ==
    \/ \E c \in LiveCookies, b \in BodiesPost : PostSubscription(c, "row", b)
    \/ \E c \in LiveCookies, i \in IdParams, b \in BodiesPatch :
          PatchSubscription(c, "row", i, b)

SpecBodies == InitBodies /\ [][NextBodies]_vars

\* ---------------------------------------------------------------------------
\* SpecPatchRace: two PATCH requests in flight at once.  Two users each own one
\* row and have logged in; each request runs its middleware, waits, and runs its
\* update, in any interleaving with the other.
\* ---------------------------------------------------------------------------
RaceBodies ==
    {[f \in {"status"} |-> "inactive"],
     [f \in {"status", "name"} |-> IF f = "status" THEN "paused" ELSE "Hulu"],
     [f \in {"name"} |-> "Max"],
     [f \in {"cost"} |-> "9.99"],
     [f \in {"status"} |-> NotAString],
     [f \in {} |-> ""]}

InitPatchRace == InitLoggedIn(LaunchRows)

NextPatchRace ==
    \/ \E slot \in Slots, c \in LiveCookies, i \in IdParams, b \in RaceBodies :
          PatchReceive(slot, c, "row", i, b)
    \/ \E slot \in Slots : PatchUpdate(slot)

SpecPatchRace == InitPatchRace /\ [][NextPatchRace]_vars

\* ---------------------------------------------------------------------------
\* SpecLaunchRace: launches that run one awaited call at a time while the same
\* users delete rows and the clock runs.
\* ---------------------------------------------------------------------------
NextLaunchRace ==
    \/ \E slot \in Slots, c \in LiveCookies, i \in IdParams : LaunchReceive(slot, c, "row", i)
    \/ \E slot \in Slots : LaunchGet(slot)
    \/ \E slot \in Slots : LaunchTrack(slot)
    \/ \E slot \in Slots : LaunchTouch(slot)
    \/ \E c \in LiveCookies, i \in SubIds : DeleteSubscription(c, "row", i)
    \/ Tick

SpecLaunchRace == InitPatchRace /\ [][NextLaunchRace]_vars

\* ---------------------------------------------------------------------------
\* SpecLoginRace: two logins in flight at once over a fresh database; each runs
\* its lookup, its insert and its session calls in any interleaving with the
\* other.
\* ---------------------------------------------------------------------------
NextLoginRace ==
    \/ \E slot \in Slots, c \in LiveCookies, e \in Emails \cup {""}, n \in Names :
          LoginReceive(slot, c, "row", e, n)
    \/ \E slot \in Slots : LoginLookup(slot)
    \/ \E slot \in Slots : LoginCreate(slot)
    \/ \E slot \in Slots : LoginSession(slot)

SpecLoginRace == InitAuth /\ [][NextLoginRace]_vars

\* ---------------------------------------------------------------------------
\* SpecOwnership: who owns a row.  Two users have logged in, one owns a row;
\* they create, fetch, edit, launch and delete rows and subscribe from the
\* catalog, with bodies that name an owner of their own.
\* ---------------------------------------------------------------------------
OwnerPost ==
    {[FullBody EXCEPT !["renewalDate"] = "2025-01-15"],
     [f \in RequiredFields \cup {"userEmail"} |->
        IF f = "userEmail" THEN "b@x.com" ELSE FullBody[f]]}
OwnerPatch ==
    {[f \in {"status", "userEmail"} |-> IF f = "status" THEN "inactive" ELSE e] : e \in Emails}
        \cup {[f \in {"userEmail"} |-> "b@x.com"], Rename}

InitOwnership == InitLoggedIn({SeedRow("s1", "a@x.com", NoDate)})

NextOwnership ==
    \/ \E c \in LiveCookies, b \in OwnerPost : PostSubscription(c, "row", b)
    \/ \E c \in LiveCookies, i \in IdParams : GetSubscription(c, "row", i)
    \/ \E c \in LiveCookies, i \in IdParams, b \in OwnerPatch :
          PatchSubscription(c, "row", i, b)
    \/ \E c \in LiveCookies : Launch(c, "row", "s1")
    \/ \E c \in LiveCookies : Subscribe(c, "row", SubscribeBody("netflix", "basic"))
    \/ \E c \in LiveCookies : DeleteSubscription(c, "row", "s1")

SpecOwnership == InitOwnership /\ [][NextOwnership]_vars

\* ---------------------------------------------------------------------------
\* SpecAuthContext: one browser and the auth routes.  Two users exist and
\* user 1 has a live session; the browser opens the page with no cookie or with
\* the cookie of that session, and checks, logs in and logs out, its requests
\* answered one at a time.  Every user lookup succeeds; the session store may
\* fail to destroy.
\* ---------------------------------------------------------------------------
LoginEmails == {"a@x.com", "b@x.com", ""}

InitAuthContext ==
    /\ users = {SeedUser(1, "a@x.com"), SeedUser(2, "b@x.com")}
    /\ subscriptions = LaunchRows
    /\ launches = <<>>
    /\ availableServices = Catalog
    /\ sessions = [sid \in {1} |-> [userId |-> 1, isAuthenticated |-> TRUE]]
    /\ nextSid = 2
    /\ now = 0
    /\ loggedOut = {}
    /\ resp = NoResp
    /\ pending = NonePending
    /\ client \in {Mounted(c) : c \in {NoCookie, 1}}

NextAuthContext ==
    \/ AuthFetch
    \/ client.sent = "me" /\ resp = NoResp /\ GetMe(client.cookie, "row")
    \/ AuthSettle
    \/ LoginSend
    \/ /\ client.sent = "login" /\ resp = NoResp
       /\ \E e \in LoginEmails : Login(client.cookie, "row", e, "Ann", TRUE, TRUE, TRUE)
    \/ LoginSettle
    \/ LogoutSend
    \/ /\ client.sent = "logout" /\ resp = NoResp
       /\ \E d \in BOOLEAN : Logout(client.cookie, "row", d)
    \/ LogoutSettle
    \/ LogoutLost

SpecAuthContext == InitAuthContext /\ [][NextAuthContext]_vars

\* ---------------------------------------------------------------------------
\* SpecInvalidate: the browser of user 1, logged in, on the subscription pages.
\* The user owns two rows, one of them expiring within 30 days.  The two
\* dashboard queries fetch, and the user adds, edits, toggles, deletes and
\* subscribes, one request at a time.
\* ---------------------------------------------------------------------------
LoggedInAs(cookie, user) ==
    [Mounted(cookie) EXCEPT !.sent = "", !.user = user, !.isAuthenticated = TRUE,
                            !.authData = [loaded |-> TRUE, user |-> user],
                            !.authLoading = FALSE]

InitBrowser(rows) ==
    /\ users = {SeedUser(1, "a@x.com"), SeedUser(2, "b@x.com")}
    /\ subscriptions \in rows
    /\ launches = <<>>
    /\ availableServices = Catalog
    /\ sessions = [sid \in {1} |-> [userId |-> 1, isAuthenticated |-> TRUE]]
    /\ nextSid = 2
    /\ now = 0
    /\ loggedOut = {}
    /\ resp = NoResp
    /\ pending = NonePending
    /\ client = LoggedInAs(1, SeedUser(1, "a@x.com"))

InitInvalidate ==
    InitBrowser({{SeedRow("s1", "a@x.com", TicksPerDay), SeedRow("s2", "a@x.com", NoDate)}})

\* the server answers the query in flight
ServeQuery ==
    /\ resp = NoResp /\ client.sent = "query"
    /\ \/ <<client.arg>> = ListKey /\ GetSubscriptions(client.cookie, "row")
       \/ <<client.arg>> = ExpiringKey /\ GetExpiring(client.cookie, "row", <<"3", "0">>)

\* the server answers the mutation in flight
ServeMutation ==
    /\ resp = NoResp
    /\ \/ client.sent = "add" /\ PostSubscription(client.cookie, "row", FullBody)
       \/ client.sent = "edit"
          /\ PatchSubscription(client.cookie, "row", client.arg,
                               [FullBody EXCEPT !["name"] = "Hulu"])
       \/ client.sent = "status"
          /\ \E st \in {"active", "inactive"} :
                PatchSubscription(client.cookie, "row", client.arg,
                                  [f \in {"status"} |-> st])
       \/ client.sent = "delete" /\ DeleteSubscription(client.cookie, "row", client.arg)
       \/ client.sent = "subscribe"
          /\ Subscribe(client.cookie, "row", SubscribeBody("netflix", "basic"))

NextInvalidate ==
    \/ \E k \in {ListKey, ExpiringKey} : QueryFetch(k)
    \/ QuerySettle
    \/ \E kind \in Mutations, id \in SubIds : Mutate(kind, id)
    \/ ServeQuery
    \/ ServeMutation
    \/ MutationSettle

SpecInvalidate == InitInvalidate /\ [][NextInvalidate]_vars

\* ---------------------------------------------------------------------------
\* SpecMetrics and SpecFilters: the browser of user 1, logged in, on the
\* dashboard.  The database holds up to MaxRows of a few rows of the user, which
\* differ in name, category, status, billing cycle, cost and dates, and the
\* clock advances.  In SpecMetrics the two queries fetch; in SpecFilters the
\* list fetches and the user changes the filters and the sort order.
\* ---------------------------------------------------------------------------
Day(n) == n * TicksPerDay

DashRow(id, name, category, cost, billingCycle, renewalDate, expirationDate, status) ==
    [id |-> id, userEmail |-> "a@x.com", name |-> name, category |-> category,
     cost |-> cost, billingCycle |-> billingCycle, renewalDate |-> renewalDate,
     expirationDate |-> expirationDate, status |-> status, logoUrl |-> JsonNull,
     description |-> JsonNull, lastUsed |-> NoDate]

DashRows ==
    {DashRow("d1", "Netflix", "Streaming", "5.00", "monthly", Day(0), Day(0), "active"),
     DashRow("d2", "Hulu", "Streaming", "15.00", "annual", Day(7) + 1, Day(3) + 1, "active"),
     DashRow("d3", "Spotify", "Music", "60.00", "monthly", Day(30) + 1, Day(7) + 1, "active"),
     DashRow("d4", "iCloud", "Storage", "25.00", "weekly", Day(90) + 1, Day(30) + 1,
             "expiring"),
     DashRow("d5", "Gym", "Fitness", "50.00", "annual", Day(90) + 1, NoDate, "inactive")}

\* the rows the filters are tried on
FilterRows == {r \in DashRows : r.status # "expiring"}

FilterChoices ==
    {DefaultFilters,
     [DefaultFilters EXCEPT !.search = "net"],
     [DefaultFilters EXCEPT !.search = "NET", !.status = {}],
     [DefaultFilters EXCEPT !.search = "lu", !.category = "Streaming"],
     [DefaultFilters EXCEPT !.search = "zz"],
     [DefaultFilters EXCEPT !.category = "all", !.status = {"inactive"}],
     [DefaultFilters EXCEPT !.category = "Music"],
     [DefaultFilters EXCEPT !.costRange = {"under-10", "over-50"}],
     [DefaultFilters EXCEPT !.costRange = {"10-25"}, !.status = {}],
     [DefaultFilters EXCEPT !.costRange = {"25-50"}, !.status = {}],
     [DefaultFilters EXCEPT !.renewalDate = "next-7"],
     [DefaultFilters EXCEPT !.renewalDate = "next-30", !.status = {}],
     [DefaultFilters EXCEPT !.renewalDate = "next-90", !.costRange = {"10-25", "25-50"}]}

SortChoices == {"name", "cost-high", "cost-low", "renewal"}

InitMetrics ==
    InitBrowser({t \in SUBSET DashRows : Cardinality(t) <= MaxRows})

InitFilters ==
    InitBrowser({t \in SUBSET FilterRows : Cardinality(t) <= MaxRows})

NextMetrics ==
    \/ \E k \in {ListKey, ExpiringKey} : QueryFetch(k)
    \/ ServeQuery
    \/ QuerySettle
    \/ client.sent = "" /\ Tick

SpecMetrics == InitMetrics /\ [][NextMetrics]_vars

NextFilters ==
    \/ QueryFetch(ListKey)
    \/ ServeQuery
    \/ QuerySettle
    \/ \E f \in FilterChoices : SetFilters(f)
    \/ \E by \in SortChoices : SetSortBy(by)
    \/ client.sent = "" /\ Tick

SpecFilters == InitFilters /\ [][NextFilters]_vars

\* ===========================================================================
\* Properties
\* ===========================================================================
IsLogin(r) == r.route = "POST /api/auth/login"
Guarded(r) == r.route \in Protected

\* ---------------------------------------------------------------------------
\* the users table holds at most one user per email
UniqueEmails == \A u1, u2 \in users : u1.email = u2.email => u1 = u2

\* a successful login returns a user of the table that carries the email; it
\* adds that user when the email had none, and adds nothing when it had one
LoginIdentityStep ==
    (IsLogin(resp') /\ resp'.status = 200) =>
        /\ resp'.user \in users'
        /\ resp'.user.email = resp'.email
        /\ IF \E u \in users : u.email = resp'.email
           THEN users' = users /\ resp'.user \in users
           ELSE users' = users \cup {resp'.user} /\ Cardinality(users') = Cardinality(users) + 1

\* C1: after any sequence of logins the users table holds at most one user per
\* email; a successful login with an email that has no user adds exactly one
\* user and returns it, a successful login with an email that has a user
\* returns that user (same id) and adds none, and no user is ever removed.
C1_IdempotentIdentity == [](UniqueEmails) /\ [][LoginIdentityStep /\ users \subseteq users']_vars

\* a second login reached the session store and the table still holds one user
C1_Witness ==
    /\ IsLogin(resp) /\ resp.status = 200
    /\ resp.newSid = 2
    /\ Cardinality(users) = 1

\* ---------------------------------------------------------------------------
RowReads == {"GET /api/subscriptions", "GET /api/subscriptions/expiring",
             "GET /api/subscriptions/:id"}

\* the launches of one user for one service name
OwnLaunches(email, name) ==
    {i \in 1..Len(launches) :
        launches[i].userEmail = email /\ launches[i].serviceName = name}

\* C2: no read endpoint called by one user returns a row, or a launch aggregate,
\* of another user: getAllSubscriptions(owner) holds only rows of that owner, and
\* so do the bodies of GET /api/subscriptions, /expiring and /:id; every entry of
\* GET /api/users/launch-stats counts the caller's own launches only.
C2_TenantIsolation ==
    /\ \A e \in Emails : \A s \in getAllSubscriptions(e) : s.userEmail = e
    /\ (resp.route \in RowReads /\ resp.status = 200) =>
           \A s \in resp.body : s.userEmail = resp.currentUser.email
    /\ (resp.route = "GET /api/users/launch-stats" /\ resp.status = 200) =>
           \A i \in 1..Len(resp.stats) :
               LET g == resp.stats[i]
               IN  /\ OwnLaunches(resp.currentUser.email, g.serviceName) # {}
                   /\ g.launchCount =
                          Cardinality(OwnLaunches(resp.currentUser.email, g.serviceName))

\* a user listed their rows while the table also held a row of someone else
C2_Witness ==
    /\ resp.route = "GET /api/subscriptions" /\ resp.status = 200
    /\ resp.body # {}
    /\ \E s \in subscriptions : s.userEmail # resp.currentUser.email

\* ---------------------------------------------------------------------------
\* an authenticated PATCH or DELETE whose :id names no row of the caller
NotOwnedWrite(r) ==
    /\ r.route \in {"PATCH /api/subscriptions/:id", "DELETE /api/subscriptions/:id"}
    /\ r.ran
    /\ ~r.owned

IsPatch(r) == r.route = "PATCH /api/subscriptions/:id"

\* the update rejects the validated body: no column to set, or a date string
\* that is no date
Rejected(body) ==
    LET data == Validated(body)
    IN  \/ SetColumns(data) = {}
        \/ \E f \in {"renewalDate", "expirationDate"} \cap DOMAIN data :
               data[f] # "" /\ NewDate(data[f]) = InvalidDate

NotOwnedStatus ==
    NotOwnedWrite(resp) =>
        /\ resp.status \in {400, 404, 500}
        /\ resp.status = 400 <=> (IsPatch(resp) /\ ~SchemaAccepts(resp.reqBody, TRUE))
        /\ resp.status = 500 <=>
               (IsPatch(resp) /\ SchemaAccepts(resp.reqBody, TRUE) /\ Rejected(resp.reqBody))

NotOwnedFrame == NotOwnedWrite(resp') => subscriptions' = subscriptions

GuardHolds ==
    Guarded(resp) =>
        /\ resp.ran <=> (resp.isAuthenticated /\ resp.currentUser # NoUser)
        /\ ~resp.ran => (resp.status = 401 /\ resp.body = {} /\ resp.stats = <<>>)

RejectedWritesNothing ==
    (Guarded(resp') /\ resp'.status = 401) => UNCHANGED <<users, subscriptions, launches>>

\* C4: on a route guarded by requireAuth the handler runs only when attachUser
\* set isAuthenticated and currentUser; otherwise the answer is 401, carries no
\* row, and no table is written.
C4_RequireAuthGate == [](GuardHolds) /\ [][RejectedWritesNothing]_vars

\* a guarded route refused a request that came with a session cookie
C4_Witness ==
    /\ Guarded(resp) /\ resp.status = 401
    /\ resp.cookie # NoCookie
    /\ subscriptions # {}

\* ---------------------------------------------------------------------------
\* C5: after a successful login the session id differs from the one the request
\* arrived with, the old id is no longer in the store, and when the response is
\* sent the store holds the new session with the returned user's id and
\* isAuthenticated = TRUE.
C5_SessionRegenerated ==
    (IsLogin(resp) /\ resp.status = 200) =>
        /\ resp.newSid # resp.sessionID
        /\ resp.newSid # resp.cookie
        /\ resp.sessionID \notin DOMAIN sessions
        /\ resp.cookie \notin DOMAIN sessions
        /\ resp.newSid \in DOMAIN sessions
        /\ sessions[resp.newSid] = [userId |-> resp.user.id, isAuthenticated |-> TRUE]

\* a login succeeded for a request that arrived with a stored session
C5_Witness ==
    /\ IsLogin(resp) /\ resp.status = 200
    /\ resp.cookie # NoCookie
    /\ resp.sessionID = resp.cookie

\* ---------------------------------------------------------------------------
\* C6: after a successful logout the session record is gone from the store, and
\* every later request with that session id is anonymous: GET /api/auth/me and
\* the guarded routes answer 401.
C6_LoggedOutStaysOut ==
    /\ \A sid \in loggedOut : sid \notin DOMAIN sessions
    /\ (resp.cookie \in loggedOut /\ (Guarded(resp) \/ resp.route = "GET /api/auth/me")) =>
           (resp.status = 401 /\ ~resp.isAuthenticated)

\* the cookie of a logged-out session was presented again, after a new login
C6_Witness ==
    /\ resp.cookie \in loggedOut
    /\ resp.route = "GET /api/auth/me"
    /\ resp.status = 401
    /\ \E sid \in DOMAIN sessions : sessions[sid].isAuthenticated

\* ---------------------------------------------------------------------------
\* C7: when the session carries an authenticated user id and the user lookup
\* finds no user or throws, attachUser destroys the session and the request goes
\* on anonymous; a guarded route answers 401, not 500.
C7_FailedLookupIsAnonymous ==
    resp.lookup \in {"none", "throws"} =>
        /\ ~resp.isAuthenticated
        /\ resp.currentUser = NoUser
        /\ resp.cookie \notin DOMAIN sessions
        /\ Guarded(resp) => resp.status = 401

\* a guarded route was called with a session whose user lookup threw
C7_Witness ==
    /\ resp.lookup = "throws"
    /\ Guarded(resp)
    /\ resp.status = 401

\* ---------------------------------------------------------------------------
\* row s is of this owner, has an expiration date, and the date lies between
\* now and daysAhead days from now, both ends included
InWindow(s, email, daysAhead) ==
    /\ s.userEmail = email
    /\ s.expirationDate # NoDate
    /\ now <= s.expirationDate
    /\ s.expirationDate <= now + daysAhead * TicksPerDay

\* C8: for every owner and every daysAhead >= 0, getExpiringSubscriptions returns
\* exactly the owner's rows whose expirationDate is not null and lies in
\* [today, today + daysAhead], both ends included, today being the time of the
\* call; the route's body is that set for the caller.
C8_ExpiringWindow ==
    /\ \A e \in Emails, d \in {0, 1, DefaultDays} :
           /\ getExpiringSubscriptions(e, d) \subseteq subscriptions
           /\ \A s \in subscriptions :
                  s \in getExpiringSubscriptions(e, d) <=> InWindow(s, e, d)
    /\ (resp.route = "GET /api/subscriptions/expiring" /\ resp.status = 200
            /\ resp.daysAhead >= 0) =>
           /\ resp.body \subseteq subscriptions
           /\ \A s \in subscriptions :
                  s \in resp.body <=> InWindow(s, resp.currentUser.email, resp.daysAhead)

\* the body holds a row expiring exactly at the cutoff and leaves out another
\* row of the caller
C8_Witness ==
    /\ resp.route = "GET /api/subscriptions/expiring" /\ resp.status = 200
    /\ \E s \in resp.body : s.expirationDate = now + resp.daysAhead * TicksPerDay
    /\ \E t \in subscriptions \ resp.body : t.userEmail = resp.currentUser.email

\* ---------------------------------------------------------------------------
\* the string is a non-empty run of decimal digits
IsNatural(str) == Len(str) > 0 /\ \A i \in 1..Len(str) : IsDigit(str[i])

RECURSIVE DecimalValue(_)
DecimalValue(str) ==
    IF Len(str) = 0 THEN 0
    ELSE 10 * DecimalValue(SubSeq(str, 1, Len(str) - 1)) + DigitVal(str[Len(str)])

\* C9 as stated: when ?days= is a non-negative integer N, 0 included, the
\* handler queries with daysAhead = N; when it is absent, with daysAhead = 30.
C9_AsStated ==
    (resp.route = "GET /api/subscriptions/expiring" /\ resp.status = 200) =>
        IF resp.days = Undefined THEN resp.daysAhead = 30
        ELSE IsNatural(resp.days) => resp.daysAhead = DecimalValue(resp.days)

\* ---------------------------------------------------------------------------
\* C10 as stated: for a logged-in user a valid POST /api/subscriptions returns
\* 201 with a new id, and the caller's list then holds that record.
C10_AsStated ==
    (resp.route = "POST /api/subscriptions" /\ resp.ran
        /\ SchemaAccepts(resp.reqBody, FALSE)) =>
        /\ resp.status = 201
        /\ \E s \in getAllSubscriptions(resp.currentUser.email) : s.id = resp.id

\* ---------------------------------------------------------------------------
IsSubscribe(r) == r.route = "POST /api/subscriptions/subscribe"

\* the subscribe handler found the service and the plan and built its record
Synthesized(r) == IsSubscribe(r) /\ r.ran /\ DOMAIN r.data # {}

\* the text of the date the claim names: the same day of the month in the month
\* after t for a monthly plan, the same day and month in the year after t for
\* an annual plan, at the same time of day
ClaimedDateOf(billingCycle, c) ==
    IF billingCycle = "annual" THEN IsoText(c.y + 1, c.m, c.d, c.k)
    ELSE IF c.m = 12 THEN IsoText(c.y + 1, 1, c.d, c.k)
    ELSE IsoText(c.y, c.m + 1, c.d, c.k)
ClaimedDate(billingCycle, t) == ClaimedDateOf(billingCycle, DateOf(t))

\* C11 as stated: whatever now is, the record subscribe builds has renewalDate
\* equal to expirationDate, and that date is now plus one calendar month (same
\* day of the month in the following month) for a monthly plan and now plus one
\* year for an annual plan.
C11_AsStated ==
    Synthesized(resp) =>
        /\ resp.data["renewalDate"] = resp.data["expirationDate"]
        /\ resp.data["renewalDate"] = ClaimedDate(resp.data["billingCycle"], now)

\* ---------------------------------------------------------------------------
\* the ids the body names, and what the catalog holds for them
NamedService(r) == {s \in availableServices : s.id = Field(r.reqBody, "serviceId", "")}
NamedPlans(r) ==
    UNION {{s.plans[i].id : i \in 1..Len(s.plans)} : s \in NamedService(r)}
        \cap {Field(r.reqBody, "planId", "")}
IdsMissing(r) ==
    \E f \in {"serviceId", "planId"} : f \notin DOMAIN r.reqBody \/ r.reqBody[f] = ""

SubscribeRefusalStatus ==
    (IsSubscribe(resp) /\ resp.ran) =>
        /\ IdsMissing(resp) => resp.status = 400
        /\ (~IdsMissing(resp) /\ (NamedService(resp) = {} \/ NamedPlans(resp) = {})) =>
               resp.status = 404

SubscribeRefusalFrame ==
    (IsSubscribe(resp') /\ resp'.status \in {400, 404}) => subscriptions' = subscriptions

\* C12: subscribe with a missing serviceId or planId answers 400; with both
\* present and a serviceId that is not in the catalog, or a planId that is not
\* among that service's plans, it answers 404; in all these cases no subscription
\* row is created and none changes.
C12_SubscribeRefusals == [](SubscribeRefusalStatus) /\ [][SubscribeRefusalFrame]_vars

\* subscribe named a service of the catalog and a plan of another service, got
\* 404, and the table holds the rows it held
C12_Witness ==
    /\ IsSubscribe(resp) /\ resp.status = 404
    /\ NamedService(resp) # {}
    /\ \E s \in availableServices :
           \E i \in 1..Len(s.plans) : s.plans[i].id = resp.reqBody["planId"]
    /\ subscriptions # {}

\* ---------------------------------------------------------------------------
\* C13 as stated: a subscribe that names a service of the catalog and one of its
\* plans answers 201 and the table then holds the new row: owned by the caller,
\* status active, category, logoUrl and description of the service, cost and
\* billingCycle of the plan, a name built from the two names.
C13_AsStated ==
    Synthesized(resp) =>
        /\ resp.status = 201
        /\ \E row \in subscriptions, s \in NamedService(resp) :
               /\ row.id = resp.id
               /\ row.userEmail = resp.currentUser.email
               /\ row.status = "active"
               /\ row.category = s.category
               /\ row.logoUrl = s.logoUrl
               /\ row.description = s.description
               /\ row.cost = resp.data["cost"]
               /\ row.billingCycle = resp.data["billingCycle"]
               /\ row.name = resp.data["name"]

\* ---------------------------------------------------------------------------
IsLaunch(r) == r.route = "POST /api/subscriptions/:id/launch"

\* the launch row of this request: its id, the caller, the name the row has now
LaunchRowOf(r, s) ==
    [subscriptionId |-> r.id, userEmail |-> r.currentUser.email,
     serviceName |-> s.name, launchedAt |-> now]

LaunchFrame ==
    (IsLaunch(resp') /\ resp'.ran) =>
        IF resp'.owned
        THEN /\ resp'.status = 200
             /\ \E s \in subscriptions :
                    /\ s.id = resp'.id
                    /\ launches' = Append(launches, LaunchRowOf(resp', s))
                    /\ subscriptions' =
                           (subscriptions \ {s}) \cup {[s EXCEPT !.lastUsed = now]}
        ELSE /\ resp'.status = 404
             /\ launches' = launches
             /\ subscriptions' = subscriptions

\* C14: a launch of a subscription the caller owns appends exactly one launch
\* row (that subscription id, the caller's email, the subscription's current
\* name) and changes only lastUsed of that subscription; a launch of an id that
\* does not exist or belongs to someone else answers 404, appends no launch row
\* and changes no subscription.
C14_LaunchFrame == [][LaunchFrame]_vars

\* a renamed subscription was launched again: the log holds a row under each
\* name, the last one under the current name, and lastUsed is the launch time
C14_Witness ==
    /\ IsLaunch(resp) /\ resp.status = 200
    /\ Len(launches) = 2
    /\ launches[1].serviceName = "Netflix" /\ launches[2].serviceName = "Hulu"
    /\ \E s \in subscriptions :
           s.id = resp.id /\ s.name = "Hulu" /\ s.lastUsed = now /\ now > 0
    /\ \E t \in subscriptions : t.userEmail # resp.currentUser.email

\* ---------------------------------------------------------------------------
\* what the claim says of one list of launch statistics of one owner
StatsAsClaimed(email, stats) ==
    LET names == {launches[i].serviceName :
                     i \in {j \in 1..Len(launches) : launches[j].userEmail = email}}
    IN  /\ {stats[i].serviceName : i \in 1..Len(stats)} = names
        /\ Len(stats) = Cardinality(names)
        /\ \A i \in 1..Len(stats) :
               /\ stats[i].launchCount = Cardinality(OwnLaunches(email, stats[i].serviceName))
               /\ stats[i].lastLaunched =
                      Max({launches[j].launchedAt :
                              j \in OwnLaunches(email, stats[i].serviceName)})
        /\ \A i, j \in 1..Len(stats) :
               i < j => stats[i].lastLaunched >= stats[j].lastLaunched

\* C15: getUserLaunchStats(owner) has exactly one entry per serviceName among
\* the owner's launch rows, with launchCount the number of those rows and
\* lastLaunched their latest launchedAt, ordered by lastLaunched descending;
\* launches of other owners are not counted.  So is the body of
\* GET /api/users/launch-stats.
C15_LaunchStats ==
    /\ \A e \in Emails : \A stats \in getUserLaunchStats(e) : StatsAsClaimed(e, stats)
    /\ (resp.route = "GET /api/users/launch-stats" /\ resp.status = 200) =>
           StatsAsClaimed(resp.currentUser.email, resp.stats)

\* a user who launched under two names at different times read the statistics:
\* two entries, the later one first
C15_Witness ==
    /\ resp.route = "GET /api/users/launch-stats" /\ resp.status = 200
    /\ Len(resp.stats) = 2
    /\ resp.stats[1].lastLaunched > resp.stats[2].lastLaunched
    /\ launches[1].serviceName = resp.stats[2].serviceName

\* ---------------------------------------------------------------------------
\* C16: the launch log is append-only: no operation, deleting or renaming the
\* launched subscription included, removes or changes a row it holds.
C16_AppendOnly ==
    [][/\ Len(launches') >= Len(launches)
       /\ \A i \in 1..Len(launches) : launches'[i] = launches[i]]_vars

\* a launched subscription was renamed, launched again and then deleted: the log
\* still holds both rows, the first under the old name
C16_Witness ==
    /\ resp.route = "DELETE /api/subscriptions/:id" /\ resp.status = 204
    /\ Len(launches) = 2
    /\ \A i \in 1..2 : launches[i].subscriptionId = resp.id
    /\ launches[1].serviceName = "Netflix" /\ launches[2].serviceName = "Hulu"
    /\ \A s \in subscriptions : s.id # resp.id

\* ---------------------------------------------------------------------------
\* an authenticated PATCH of a row of the caller whose body is a status, a string
SetsStatus(r) ==
    /\ IsPatch(r) /\ r.ran /\ r.owned
    /\ DOMAIN r.reqBody = {"status"}
    /\ IsString(r.reqBody["status"])

StatusStored ==
    SetsStatus(resp') =>
        /\ resp'.status = 200
        /\ \E s \in subscriptions :
               /\ s.id = resp'.id
               /\ subscriptions' =
                      (subscriptions \ {s}) \cup {[s EXCEPT !.status = resp'.reqBody["status"]]}

\* C17: no status transition table: on a row of the caller in any status, a
\* PATCH that sets status to any string, one outside active, inactive, expiring
\* included, answers 200 and stores that value.
C17_AnyStatus == [][StatusStored]_vars

\* a row was given a status outside the enumeration, and the other user's row
\* holds yet another one
C17_Witness ==
    /\ IsPatch(resp) /\ resp.status = 200
    /\ DOMAIN resp.reqBody = {"status"} /\ resp.reqBody["status"] = "paused"
    /\ \E s \in subscriptions : s.id = resp.id /\ s.status = "paused"
    /\ \E t \in subscriptions : t.id # resp.id /\ t.status = ""

\* ---------------------------------------------------------------------------
\* the schema violations the claim names
TextFields == {"name", "category", "cost", "billingCycle", "renewalDate",
               "expirationDate", "status"}
MissingRequired(body) ==
    \E f \in {"name", "category", "billingCycle", "status"} : f \notin DOMAIN body
EmptyCostOrDate(body) ==
    \E f \in {"cost", "renewalDate"} \cap DOMAIN body : body[f] = ""
WrongType(body) ==
    \/ \E f \in TextFields \cap DOMAIN body : body[f] = NotAString
    \/ "lastUsed" \in DOMAIN body /\ IsString(body["lastUsed"])
Violates(r) ==
    \/ /\ r.route = "POST /api/subscriptions"
       /\ MissingRequired(r.reqBody) \/ EmptyCostOrDate(r.reqBody) \/ WrongType(r.reqBody)
    \/ IsPatch(r) /\ WrongType(r.reqBody)

ViolationRefused ==
    (resp'.ran /\ Violates(resp')) =>
        /\ resp'.status = 400
        /\ ~resp'.valid
        /\ subscriptions' = subscriptions

\* C18: a POST /api/subscriptions whose body lacks name, category, billingCycle
\* or status, or has an empty cost or renewalDate, and a POST or PATCH whose body
\* has a field of the wrong type, answers 400 with the validation errors, and no
\* subscription row is created or changed.
C18_ValidationRefuses == [][ViolationRefused]_vars

\* a PATCH of the caller's own row with a number for its status was refused and
\* the row keeps the status it had
C18_Witness ==
    /\ IsPatch(resp) /\ resp.owned /\ resp.status = 400
    /\ DOMAIN resp.reqBody = {"status"} /\ resp.reqBody["status"] = NotAString
    /\ \E s \in subscriptions : s.id = resp.id /\ s.status = "paused"

\* ---------------------------------------------------------------------------
\* every session that is authenticated after the step was so before it
NoNewAuthenticated ==
    \A sid \in DOMAIN sessions' :
        sessions'[sid].isAuthenticated =>
            sid \in DOMAIN sessions /\ sessions[sid].isAuthenticated

StoreFailureAnswered ==
    /\ (IsLogin(resp') /\ resp'.failed \in {"regenerate", "save"}) =>
           resp'.status = 500 /\ NoNewAuthenticated
    /\ (resp'.route = "POST /api/auth/logout" /\ resp'.failed = "destroy") =>
           resp'.status = 500

\* C19 as stated: a login during which regenerate or save fails is answered 500
\* and leaves no session authenticated that was not so before; a logout during
\* which destroy fails is answered 500.
C19_AsStated == [][StoreFailureAnswered]_vars

\* ---------------------------------------------------------------------------
NoEmailRefused ==
    (IsLogin(resp') /\ resp'.email \in {NoEmail, ""}) =>
        /\ resp'.status = 400
        /\ users' = users
        /\ nextSid' = nextSid
        /\ \A sid \in DOMAIN sessions' :
               sid \in DOMAIN sessions /\ sessions'[sid] = sessions[sid]

\* C20: a login whose body carries no email, or an empty one, answers 400; no
\* user is created, no session is generated and no session record changes.
C20_NoEmailNoEffect == [][NoEmailRefused]_vars

\* a logged-in user sent a login with an empty email over their session: 400,
\* and the session is the one it was
C20_Witness ==
    /\ IsLogin(resp) /\ resp.status = 400 /\ resp.email = ""
    /\ resp.isAuthenticated /\ resp.currentUser # NoUser
    /\ resp.cookie \in DOMAIN sessions /\ sessions[resp.cookie].isAuthenticated
    /\ users # {}

\* ---------------------------------------------------------------------------
\* both slots hold an answered PATCH of one row of the caller of both, and
\* neither body is one the handler refuses on its own
BothPatched ==
    /\ \A slot \in Slots :
           /\ pending[slot].pc = "done"
           /\ pending[slot].route = "PATCH /api/subscriptions/:id"
           /\ pending[slot].currentUser # NoUser
           /\ SchemaAccepts(pending[slot].body, TRUE)
           /\ ~Rejected(pending[slot].body)
    /\ pending[1].id = pending[2].id
    /\ pending[1].currentUser = pending[2].currentUser
    /\ \E s \in LaunchRows :
           s.id = pending[1].id /\ s.userEmail = pending[1].currentUser.email

\* the value a column holds after update `first` and then update `last` of a
\* row that held `was`: what the last update that set it wrote
LastWrite(f, was, first, last) ==
    IF f \in DOMAIN last THEN last[f]
    ELSE IF f \in DOMAIN first THEN first[f]
    ELSE was[f]

\* the update that ran first: the one whose answer is not the latest one
EarlierBody == IF pending[1].body = resp.reqBody THEN pending[2].body ELSE pending[1].body

\* C21: two PATCH requests of one user on one row of theirs that are in flight
\* together are both answered 200, and the row then is the result of the two
\* updates one after the other: every column holds what the last update that
\* set it wrote, and a column neither set holds what it held before.
C21_LastWriteWins ==
    BothPatched =>
        /\ \A slot \in Slots : pending[slot].status = 200
        /\ \E row \in subscriptions, was \in LaunchRows :
               /\ row.id = pending[1].id /\ was.id = row.id
               /\ \A f \in DOMAIN row : row[f] = LastWrite(f, was, EarlierBody, resp.reqBody)

\* both requests were past their middleware before either update ran, the
\* first set status and name, the second only the name: the row keeps the
\* status of the first and has the name of the second
C21_Witness ==
    /\ BothPatched
    /\ DOMAIN resp.reqBody = {"name"}
    /\ DOMAIN EarlierBody = {"status", "name"}
    /\ \E row \in subscriptions :
           row.id = resp.id /\ row.name = "Max" /\ row.status = "paused"

\* ---------------------------------------------------------------------------
\* a valid POST /api/subscriptions of an authenticated user whose renewalDate
\* is a date
CreatesWithDate(r) ==
    /\ r.route = "POST /api/subscriptions" /\ r.ran
    /\ SchemaAccepts(r.reqBody, FALSE)
    /\ NewDate(r.reqBody["renewalDate"]) # InvalidDate

\* C22 as stated: creating a subscription with a date string for renewalDate
\* and fetching it by id as the same user gives a record whose renewalDate is
\* the timestamp of that date and whose other submitted fields are as submitted.
C22_AsStated ==
    CreatesWithDate(resp) =>
        /\ resp.status = 201
        /\ \E row \in getSubscription(resp.id, resp.currentUser.email) :
               /\ row.renewalDate = NewDate(resp.reqBody["renewalDate"])
               /\ \A f \in (DOMAIN resp.reqBody \cap SchemaFields) \ {"renewalDate"} :
                      row[f] = resp.reqBody[f]

\* ---------------------------------------------------------------------------
\* a row that stays keeps its owner
OwnerKept ==
    \A s \in subscriptions, t \in subscriptions' : s.id = t.id => t.userEmail = s.userEmail

\* a row that is new is owned by the caller of the request that made it
OwnerIsCreator ==
    \A t \in subscriptions' :
        (\A s \in subscriptions : s.id # t.id) => t.userEmail = resp'.currentUser.email

BothLookedUpFirst ==
    /\ \A slot \in Slots :
           /\ pending[slot].pc = "done"
           /\ pending[slot].route = "POST /api/auth/login"
           /\ pending[slot].status # 400
           /\ pending[slot].found = NoUser
    /\ pending[1].email = pending[2].email

\* C27 as stated: two logins with one new email, both looking the email up
\* before either creates the user, leave exactly one user with that email and
\* are both answered 200 with that user.
C27_AsStated ==
    BothLookedUpFirst =>
        /\ Cardinality({u \in users : u.email = pending[1].email}) = 1
        /\ \A slot \in Slots :
               /\ pending[slot].status = 200
               /\ pending[slot].user \in users
               /\ pending[slot].user.email = pending[slot].email

\* ---------------------------------------------------------------------------
\* C29 as stated: a launch that runs while the same user deletes the
\* subscription never answers success for a subscription that is gone: when it
\* answers success, the row it launched exists, is the caller's, and carries the
\* lastUsed the launch wrote.
C29_AsStated ==
    (IsLaunch(resp) /\ resp.status = 200) =>
        \E s \in subscriptions :
            /\ s.id = resp.id
            /\ s.userEmail = resp.currentUser.email
            /\ s.lastUsed = now

\* ---------------------------------------------------------------------------
\* C30  After the browser's logout() settles, whether the server's logout
\* succeeded or failed, user is null, isAuthenticated is false and the query
\* cache is empty, and user stays null until a login succeeds; in every state
\* isAuthenticated is true exactly when user is not null; ProtectedRoute shows
\* the protected pages only when both hold and nothing is loading.
\* (SpecAuthContext)
\* ---------------------------------------------------------------------------
LogoutJustSettled ==
    client.sent = "logout" /\ client'.sent # "logout"
LoginSucceeds ==
    client.sent = "login" /\ client'.sent # "login" /\ resp.status = 200
AuthStateConsistent ==
    /\ client.isAuthenticated <=> client.user # NoUser
    /\ ProtectedRoute(client) = "children"
          => client.isAuthenticated /\ client.user # NoUser /\ ~isLoading(client)
LoggedOutAtSettle ==
    [][LogoutJustSettled
          => /\ client'.user = NoUser /\ ~client'.isAuthenticated
             /\ \A k \in DOMAIN client'.queries : ~client'.queries[k].loaded
             /\ ~client'.authData.loaded]_vars
C30_AsStated ==
    /\ []AuthStateConsistent
    /\ LoggedOutAtSettle
    /\ [][client.afterLogout /\ ~LoginSucceeds
             => client'.user = NoUser /\ ~client'.isAuthenticated]_vars

\* ---------------------------------------------------------------------------
\* C23  After every successful subscription mutation of the browser (add,
\* edit, status toggle, delete, marketplace subscribe) both the query
\* "/api/subscriptions" and the query "/api/subscriptions/expiring?days=30"
\* are invalidated.  (SpecInvalidate)
\* ---------------------------------------------------------------------------
MutationSucceeds ==
    client.sent \in Mutations /\ client'.sent = "" /\ Ok(resp)
C23_AsStated ==
    [][MutationSucceeds
          => /\ client'.queries[ListKey].isInvalidated
             /\ client'.queries[ExpiringKey].isInvalidated]_vars

\* ---------------------------------------------------------------------------
\* The page as it was rendered: the list and the expiring list it was given.
\* Days are whole days, rounded up: d days lie ahead of instant t when the date
\* is more than d - 1 days and at most d days after t.
Listed == client.queries[ListKey].data
ListedExpiring == client.queries[ExpiringKey].data
RowsOf(seq) == {seq[i] : i \in DOMAIN seq}
WholeDays(date, t) ==
    CHOOSE d \in -MaxNow..(92 + MaxNow) :
        /\ (d - 1) * TicksPerDay < NewDate(date) - t
        /\ NewDate(date) - t <= d * TicksPerDay

\* ---------------------------------------------------------------------------
\* C24  For every subscription list the metrics cards count only the
\* subscriptions with status "active": totalMonthly is the sum of cost over the
\* monthly ones plus cost / 12 over the annual ones, totalAnnual is the sum of
\* cost over the annual ones plus cost * 12 over the monthly ones, which is
\* 12 * totalMonthly, activeCount is their number, and expiringSoon is the
\* number of them whose renewal is 0 to 30 whole days ahead.  Money is exact,
\* in twelfths of a cent.  (SpecMetrics)
\* ---------------------------------------------------------------------------
ActiveListed == {r \in RowsOf(Listed) : r.status = "active"}
MonthlyShare(r) ==
    IF r.billingCycle = "monthly" THEN 12 * parseFloat(r.cost)
    ELSE IF r.billingCycle = "annual" THEN parseFloat(r.cost)
    ELSE 0
RECURSIVE SumOfShares(_)
SumOfShares(rows) ==
    IF rows = {} THEN 0
    ELSE LET r == CHOOSE x \in rows : TRUE
         IN  MonthlyShare(r) + SumOfShares(rows \ {r})
C24_MetricsCards ==
    /\ client.view.metrics.totalMonthly = SumOfShares(ActiveListed)
    /\ client.view.metrics.totalAnnual = 12 * client.view.metrics.totalMonthly
    /\ client.view.metrics.activeCount = Cardinality(ActiveListed)
    /\ client.view.metrics.expiringSoon =
          Cardinality({r \in ActiveListed :
                          WholeDays(r.renewalDate, client.view.at) \in 0..30})

\* the page shows a list that holds an active monthly, an active annual and
\* an inactive subscription, one of the active ones renewing within 30 days and
\* one later
C24_Witness ==
    /\ \E r \in ActiveListed : r.billingCycle = "monthly"
    /\ \E r \in ActiveListed : r.billingCycle = "annual"
    /\ \E r \in RowsOf(Listed) : r.status # "active"
    /\ client.view.metrics.expiringSoon \in 1..(client.view.metrics.activeCount - 1)
    /\ client.view.metrics.totalMonthly > 0

\* ---------------------------------------------------------------------------
\* C25  getExpirationUrgency gives every expiration date one outcome by the
\* whole days d until it: none when the date is null, d < 0 or d > 30,
\* critical when 0 <= d <= 3, warning when 4 <= d <= 7, info when
\* 8 <= d <= 30; and the urgent alert lists exactly the subscriptions of the
\* expiring list that are critical.  (SpecMetrics)
\* ---------------------------------------------------------------------------
UrgencyAsClaimed(date, t) ==
    IF date = JsonNull THEN "none"
    ELSE CASE WholeDays(date, t) \in 0..3 -> "critical"
           [] WholeDays(date, t) \in 4..7 -> "warning"
           [] WholeDays(date, t) \in 8..30 -> "info"
           [] OTHER -> "none"
CriticalListed(sub) == UrgencyAsClaimed(sub.expirationDate, client.view.at) = "critical"
SameLetters(a, b) ==
    Len(a) = Len(b) /\ \A i \in DOMAIN a : Rank(a[i]) = Rank(b[i])
Contains(name, text) ==
    \E i \in 1..(Len(name) + 1), j \in 0..Len(name) : SameLetters(SubSeq(name, i, j), text)
InRange(cents, range) ==
    \/ range = "under-10" /\ cents < 1000
    \/ range = "10-25" /\ cents \in 1000..2500
    \/ range = "25-50" /\ cents \in 2500..5000
    \/ range = "over-50" /\ cents > 5000
WindowDays(window) ==
    CASE window = "next-7" -> 7 [] window = "next-30" -> 30 [] window = "next-90" -> 90
Passes(sub, filters, t) ==
    /\ filters.search = "" \/ Contains(Chars(sub.name), Chars(filters.search))
    /\ filters.category \in {"", "all"} \/ sub.category = filters.category
    /\ filters.status = {} \/ sub.status \in filters.status
    /\ filters.costRange = {}
          \/ \E range \in filters.costRange : InRange(parseFloat(sub.cost), range)
    /\ filters.renewalDate = ""
          \/ WholeDays(sub.renewalDate, t) \in 0..WindowDays(filters.renewalDate)
C26_FilterAndSort ==
    /\ RowsOf(client.view.filtered)
          = {r \in RowsOf(Listed) : Passes(r, client.filters, client.view.at)}
    /\ Len(client.view.filtered) = Cardinality(RowsOf(client.view.filtered))
    /\ RowsOf(client.view.sorted) = RowsOf(client.view.filtered)
    /\ Len(client.view.sorted) = Len(client.view.filtered)

\* the page shows a list of costs 5, 15 and 60 under the cost ranges under-10
\* and over-50, and keeps the subscriptions of cost 5 and 60
C26_Witness ==
    /\ {r.cost : r \in RowsOf(Listed)} = {"5.00", "15.00", "60.00"}
    /\ Len(Listed) = 3
    /\ client.filters.costRange = {"under-10", "over-50"}
    /\ {r.cost : r \in RowsOf(client.view.sorted)} = {"5.00", "60.00"}
    /\ Len(client.view.sorted) = 2

====
